---- MODULE Spec2Model ----
(***************************************************************************)
(* Detection engine of the SIEM backend (backend/services/detectionEngine) *)
(* together with the ingestion routes that drive it, the rule toggle and   *)
(* the part of the SQLite store (rules, events, alerts) the engine reads   *)
(* and writes.  Wall-clock time is Date.now() in milliseconds; the model's *)
(* clock advances in steps of the sweep timer's interval.                  *)
(***************************************************************************)
EXTENDS Integers, Sequences, FiniteSets, TLC

VARIABLES
    now,            \* Date.now(), ms since the engine module was loaded
    thresholdState, \* the module-level Map: state key -> {count, window_start, events}
    rules,          \* table rules, in rowid order
    events,         \* table events: the ids of the persisted events
    alerts,         \* table alerts
    pending,        \* POST /batch in progress: parsedEvents not yet inserted (ids)
    nextId,         \* the next uuid
    toggles,        \* number of PATCH /api/rules/:id requests served
    last,           \* the latest processEvent call: its event, time and result
    thrTrail,       \* history: per group, the latest events matching the threshold rule
    corTrail,       \* history: per group, stage-0 events since the last correlation alert
    running,        \* the processEvent call on the stack, rule by rule, or Idle
    probe           \* one call of a pure function: its input and, once made, its result

vars == <<now, thresholdState, rules, events, alerts, pending, nextId,
          toggles, last, thrTrail, corTrail, running, probe>>

----------------------------------------------------------------------------
(* Bounds of the model *)

MaxTicks == 3
MaxEvents == 4
MaxBatch == 2
MaxToggles == 2

----------------------------------------------------------------------------
(* JavaScript values *)

Undefined == [t |-> "undefined"]
Null == [t |-> "null"]
Str(s) == [t |-> "string", v |-> s]
Num(n) == [t |-> "number", v |-> n]
Obj(r) == [t |-> "object", f |-> r]

Has(o, k) == o # Null /\ o # Undefined /\ k \in DOMAIN o

\* `${value}` of a template literal
ToStr(value) ==
    CASE value.t = "string" -> value.v
      [] value.t = "number" -> ToString(value.v)
      [] OTHER -> value.t

\* x || dflt for a numeric rule parameter
OrDefault(o, k, dflt) == IF Has(o, k) /\ o[k] # 0 THEN o[k] ELSE dflt

----------------------------------------------------------------------------
(* Program constants *)

SweepIntervalMs == 60000
MaxAgeMs == 600000

----------------------------------------------------------------------------
(* The rules in the rules table: the brute-force, login-after-failures and  *)
(* sudo rules of InstalledRules with a smaller threshold, count and window   *)
(* and a stage-1 predicate that overlaps stage 0, and a rule created        *)
(* through POST /api/rules whose group_by is a number, not a field path.    *)

AuthType == <<"parsed_data", "auth_type">>
AuthResult == <<"parsed_data", "auth_result">>
SourceIp == <<"parsed_data", "source_ip">>

\* a field path given as a string
Path(parts) == [t |-> "string", parts |-> parts]

ThrRule ==
    [id |-> "thr", name |-> "SSH Brute Force Detection", severity |-> "critical",
     rule_type |-> "threshold",
     conditions |-> [field |-> AuthType, equals |-> Str("ssh"),
                     additional |-> [field |-> AuthResult, equals |-> Str("failure")],
                     threshold |-> 2, window_seconds |-> 120,
                     group_by |-> Path(SourceIp)]]

BadRule ==
    [id |-> "bad", name |-> "Malformed", severity |-> "warning",
     rule_type |-> "correlation",
     conditions |-> [sequence |-> <<[count |-> 3, window_seconds |-> 300,
                                     match |-> [field |-> AuthResult,
                                                equals |-> Str("failure")]],
                                    [match |-> [field |-> AuthResult,
                                                equals |-> Str("success")]]>>,
                     group_by |-> Num(5)]]

CorRule ==
    [id |-> "cor", name |-> "Successful Login After Failures", severity |-> "critical",
     rule_type |-> "correlation",
     conditions |-> [sequence |-> <<[count |-> 2, window_seconds |-> 120,
                                     match |-> [field |-> AuthResult,
                                                equals |-> Str("failure")]],
                                    [match |-> [field |-> AuthType,
                                                equals |-> Str("ssh")]]>>,
                     group_by |-> Path(SourceIp)]]

SigRule ==
    [id |-> "sig", name |-> "Sudo to Root", severity |-> "warning",
     rule_type |-> "signature",
     conditions |-> [field |-> <<"event_type">>, equals |-> Str("privilege"),
                     additional |-> [field |-> <<"parsed_data", "target_user">>,
                                     equals |-> Str("root")]]]

InstalledRules == <<ThrRule, BadRule, CorRule, SigRule>>

RuleIds == {InstalledRules[i].id : i \in DOMAIN InstalledRules}

\* ruleOps.upsert: the row the rule is stored as
RuleRow(rule) ==
    [id |-> rule.id, name |-> rule.name, severity |-> rule.severity,
     rule_type |-> rule.rule_type, conditions |-> rule.conditions,
     enabled |-> TRUE, match_count |-> 0]

----------------------------------------------------------------------------
(* Events as the ingestion routes build them *)

Groups == {"a", "b"}

\* parsed_data of the log lines fed to the engine
SshFailure(g) == [auth_type |-> Str("ssh"), auth_result |-> Str("failure"),
                  source_ip |-> Str(g)]
SshSuccess(g) == [auth_type |-> Str("ssh"), auth_result |-> Str("success"),
                  source_ip |-> Str(g)]
SudoRoot == [auth_type |-> Str("sudo"), auth_result |-> Str("success"),
             target_user |-> Str("root")]

\* the records sent to the routes: the parser's result and how far behind the wall
\* clock the record's timestamp is
Records ==
    {[event_type |-> "authentication", parsed_data |-> SshFailure(g), lag |-> 0] :
        g \in Groups}
    \cup {[event_type |-> "authentication", parsed_data |-> SshFailure("a"),
           lag |-> 120000],
          [event_type |-> "authentication", parsed_data |-> SshSuccess("a"), lag |-> 0],
          [event_type |-> "privilege", parsed_data |-> SudoRoot, lag |-> 0]}

MkEvent(id, timestamp, parsed) ==
    Obj([id |-> Num(id), timestamp |-> Num(timestamp),
         event_type |-> Str(parsed.event_type),
         parsed_data |-> Obj(parsed.parsed_data)])

\* new Date(e.timestamp).getTime()
GetTime(timestamp) == timestamp.v

----------------------------------------------------------------------------
(* Condition matcher *)

\* a variant that yields null for a property that is not there
Prop_Null(value, part) ==
    IF value.t = "object" /\ part \in DOMAIN value.f THEN value.f[part] ELSE Null

Prop(value, part) ==
    IF value.t = "object" /\ part \in DOMAIN value.f THEN value.f[part] ELSE Undefined

RECURSIVE Walk(_, _, _)
Walk(value, parts, i) ==
    IF i > Len(parts) THEN value
    ELSE IF value = Null \/ value = Undefined THEN Undefined
    ELSE Walk(Prop(value, parts[i]), parts, i + 1)

\* a field path is the sequence fieldPath.split('.'); <<>> is an absent path
GetFieldValue(obj, fieldPath) ==
    IF fieldPath = <<>> \/ obj = Null \/ obj = Undefined THEN Undefined
    ELSE Walk(obj, fieldPath, 1)

FieldOf(condition) == IF Has(condition, "field") THEN condition.field ELSE <<>>

\* a === b.  A string's v is a TLA+ string where the model only compares it and puts
\* it in a state key, and the sequence of its characters where the matcher looks
\* inside it; a number's v is an integer.  Two objects are never the same object.
StrictEquals(a, b) ==
    /\ a.t = b.t
    /\ CASE a.t \in {"undefined", "null"} -> TRUE
         [] a.t = "object" -> FALSE
         [] OTHER -> a.v = b.v

\* !value
Falsy(value) ==
    \/ value.t \in {"undefined", "null"}
    \/ value.t = "string" /\ Len(value.v) = 0
    \/ value.t = "number" /\ value.v = 0

\* String(value), as characters (numbers are single digits in the model)
JsString(value) ==
    CASE value.t = "string" -> value.v
      [] value.t = "number" -> <<ToString(value.v)>>
      [] value.t = "null" -> <<"n", "u", "l", "l">>
      [] value.t = "undefined" ->
             <<"u", "n", "d", "e", "f", "i", "n", "e", "d">>
      [] OTHER -> <<"[", "o", "b", "j", "e", "c", "t", " ", "O", "b", "j", "e",
                    "c", "t", "]">>

\* toLowerCase on the capitals the model's texts use
LowerChar(c) == CASE c = "A" -> "a" [] c = "B" -> "b" [] c = "O" -> "o" [] OTHER -> c
ToLowerCase(chars) == [i \in DOMAIN chars |-> LowerChar(chars[i])]

\* hay.includes(needle)
Includes(hay, needle) ==
    \E i \in 0..(Len(hay) - Len(needle)) : SubSeq(hay, i + 1, i + Len(needle)) = needle

CountOf(chars, c) == Cardinality({i \in DOMAIN chars : chars[i] = c})

\* new RegExp(source, 'i') raises a SyntaxError: the parentheses do not balance
RegExpThrows(source) == CountOf(source, "(") # CountOf(source, ")")

\* regex.test(text) for a source of literal characters and '.', flag i
RegExpTest(source, text) ==
    \E i \in 0..(Len(text) - Len(source)) :
        \A j \in DOMAIN source :
            \/ source[j] = "."
            \/ LowerChar(source[j]) = LowerChar(text[i + j])

\* a variant that never finds the key
Truthy_Never(o, k) == FALSE

\* the key is present with a truthy value
Truthy(o, k) == Has(o, k) /\ o[k] # Null

RECURSIVE MatchesCondition(_, _)
MatchesCondition(event, condition) ==
    IF condition = Null \/ condition = Undefined THEN FALSE
    ELSE IF Has(condition, "any")
        THEN \E i \in DOMAIN condition.any : MatchesCondition(event, condition.any[i])
    ELSE IF Has(condition, "all")
        THEN \A i \in DOMAIN condition.all : MatchesCondition(event, condition.all[i])
    ELSE
        LET fieldValue == GetFieldValue(event, FieldOf(condition))
        IN  /\ Has(condition, "equals") => StrictEquals(fieldValue, condition.equals)
            /\ Has(condition, "contains") =>
                   /\ ~Falsy(fieldValue)
                   /\ Includes(ToLowerCase(JsString(fieldValue)),
                               ToLowerCase(JsString(condition.contains)))
            /\ Has(condition, "contains_any") =>
                   /\ ~Falsy(fieldValue)
                   /\ \E i \in DOMAIN condition.contains_any :
                          Includes(ToLowerCase(JsString(fieldValue)),
                                   ToLowerCase(JsString(condition.contains_any[i])))
            /\ Has(condition, "matches") =>
                   /\ ~RegExpThrows(JsString(condition.matches))
                   /\ ~Falsy(fieldValue)
                   /\ RegExpTest(JsString(condition.matches), JsString(fieldValue))
            /\ Truthy(condition, "not") => ~MatchesCondition(event, condition.not)
            /\ Truthy(condition, "additional") =>
                   MatchesCondition(event, condition.additional)

----------------------------------------------------------------------------
(* The engine.  A handler works on m = [thresholdState, events, alerts,    *)
(* rules] and returns [m, alert, threw].                                   *)

Ret(m, alert) == [m |-> m, alert |-> alert, threw |-> FALSE]
Throw(m) == [m |-> m, alert |-> Null, threw |-> TRUE]

EmptyState(t) == [count |-> 0, window_start |-> t, events |-> <<>>]

\* a variant that keys the state by the group alone
StateKey_Shared(rule, groupValue) == ToStr(groupValue)

StateKey(rule, groupValue) == rule.id \o ":" \o ToStr(groupValue)

\* fieldPath.split('.') of getFieldValue raises when group_by is not a string
GroupByThrows(conditions) ==
    Has(conditions, "group_by") /\ conditions.group_by.t # "string"

GroupValue(event, conditions) ==
    IF Has(conditions, "group_by")
    THEN GetFieldValue(event, conditions.group_by.parts)
    ELSE Str("global")

MapSet(map, key, value) ==
    [k \in DOMAIN map \cup {key} |-> IF k = key THEN value ELSE map[k]]

MapDelete(map, key) == [k \in DOMAIN map \ {key} |-> map[k]]

\* alertOps.insert: the alerts.event_id foreign key is enforced
AlertInsertFails(m, alert) == alert.event_id \notin m.events

IncrementMatchCount(rows, id) ==
    [i \in DOMAIN rows |->
        IF rows[i].id = id
        THEN [rows[i] EXCEPT !.match_count = @ + 1]
        ELSE rows[i]]

CreateAlert(event, rule, details, m) ==
    LET alert == [event_id |-> event.f.id.v, rule_id |-> rule.id,
                  severity |-> rule.severity, status |-> "open",
                  title |-> rule.name, details |-> details]
    IN  IF AlertInsertFails(m, alert) THEN Throw(m)
        ELSE [m |-> [m EXCEPT !.alerts = @ \cup {alert},
                              !.rules = IncrementMatchCount(@, rule.id)],
              alert |-> alert, threw |-> FALSE]

ProcessSignatureRule(event, rule, m) ==
    IF ~MatchesCondition(event, rule.conditions) THEN Ret(m, Null)
    ELSE CreateAlert(event, rule, <<"Signature match", rule.name>>, m)

Entry(event) == [id |-> event.f.id.v, timestamp |-> event.f.timestamp]

\* a variant that prunes nothing
Recent_All(entries, windowMs) == entries

Recent(entries, windowMs) ==
    SelectSeq(entries, LAMBDA e : (now - GetTime(e.timestamp)) < windowMs)

\* a variant that leaves the counted window in place when the threshold is reached
ThresholdReset_Kept(m, stateKey) == m

ThresholdReset(m, stateKey) ==
    [m EXCEPT !.thresholdState = MapSet(@, stateKey, EmptyState(now))]

\* a variant that never expires a window
ThresholdWindow_NoExpiry(map, stateKey, windowMs) ==
    IF stateKey \notin DOMAIN map THEN EmptyState(now) ELSE map[stateKey]

ThresholdWindow(map, stateKey, windowMs) ==
    IF stateKey \notin DOMAIN map \/ (now - map[stateKey].window_start) > windowMs
    THEN EmptyState(now)
    ELSE map[stateKey]

ProcessThresholdRule(event, rule, m) ==
    IF ~MatchesCondition(event, rule.conditions) THEN Ret(m, Null)
    ELSE IF GroupByThrows(rule.conditions) THEN Throw(m)
    ELSE
        LET conditions == rule.conditions
            groupValue == GroupValue(event, conditions)
            stateKey == StateKey(rule, groupValue)
            windowMs == OrDefault(conditions, "window_seconds", 60) * 1000
            state == ThresholdWindow(m.thresholdState, stateKey, windowMs)
            kept == Recent(Append(state.events, Entry(event)), windowMs)
            counted == [count |-> Len(kept), window_start |-> state.window_start,
                        events |-> kept]
            m1 == [m EXCEPT !.thresholdState = MapSet(@, stateKey, counted)]
        IN  IF counted.count >= OrDefault(conditions, "threshold", 5)
            THEN CreateAlert(event, rule,
                             <<"Threshold exceeded", counted.count,
                               ToStr(groupValue)>>,
                             ThresholdReset(m1, stateKey))
            ELSE Ret(m1, Null)

\* a variant that fires on any stage-1 event of a group that has state
CorrelationFires_AnyCount(event, sequence, map, stateKey) ==
    /\ Has(sequence[2], "match")
    /\ MatchesCondition(event, sequence[2].match)
    /\ stateKey \in DOMAIN map

\* the stage-1 branch: TRUE when the handler clears the state and creates the alert
CorrelationFires(event, sequence, map, stateKey) ==
    LET failurePattern == sequence[1]
        windowMs == OrDefault(failurePattern, "window_seconds", 300) * 1000
        needed == OrDefault(failurePattern, "count", 3)
    IN  /\ Has(sequence[2], "match")
        /\ MatchesCondition(event, sequence[2].match)
        /\ stateKey \in DOMAIN map
        /\ map[stateKey].count >= needed
        /\ Len(Recent(map[stateKey].events, windowMs)) >= needed

\* a variant that never records a stage-0 event
CorrelationAppend_Dropped(event, sequence, m, stateKey) == m

CorrelationAppend(event, sequence, m, stateKey) ==
    IF Has(sequence[1], "match") /\ MatchesCondition(event, sequence[1].match)
    THEN LET state == IF stateKey \in DOMAIN m.thresholdState
                      THEN m.thresholdState[stateKey]
                      ELSE EmptyState(now)
             grown == [state EXCEPT !.count = @ + 1,
                                    !.events = Append(@, Entry(event))]
         IN  [m EXCEPT !.thresholdState = MapSet(@, stateKey, grown)]
    ELSE m

\* a variant that keeps the group's failures when the rule fires
CorrelationClear_Kept(m, stateKey) == m

CorrelationClear(m, stateKey) ==
    [m EXCEPT !.thresholdState = MapDelete(@, stateKey)]

ProcessCorrelationRule(event, rule, m) ==
    IF rule.conditions = Null \/ rule.conditions = Undefined THEN Throw(m)
    ELSE IF ~Has(rule.conditions, "sequence") \/ Len(rule.conditions.sequence) < 2
        THEN Ret(m, Null)
    ELSE IF GroupByThrows(rule.conditions) THEN Throw(m)
    ELSE
        LET sequence == rule.conditions.sequence
            groupValue == GroupValue(event, rule.conditions)
            stateKey == StateKey(rule, groupValue)
            windowMs == OrDefault(sequence[1], "window_seconds", 300) * 1000
        IN  IF CorrelationFires(event, sequence, m.thresholdState, stateKey)
            THEN CreateAlert(event, rule,
                             <<"Correlation match",
                               Len(Recent(m.thresholdState[stateKey].events, windowMs))>>,
                             CorrelationClear(m, stateKey))
            ELSE Ret(CorrelationAppend(event, sequence, m, stateKey), Null)

Dispatch(event, rule, m) ==
    CASE rule.rule_type = "signature" -> ProcessSignatureRule(event, rule, m)
      [] rule.rule_type = "threshold" -> ProcessThresholdRule(event, rule, m)
      [] rule.rule_type = "correlation" -> ProcessCorrelationRule(event, rule, m)
      [] OTHER -> Ret(m, Null)

\* a variant that returns every rule, enabled or not
GetEnabled_All(rows) == rows

\* ruleOps.getEnabled
GetEnabled(rows) == SelectSeq(rows, LAMBDA r : r.enabled)

\* a variant of the loop body in which a raised exception ends the loop
RuleStep_Abort(event, rule, acc) ==
    IF acc.threw # {} THEN acc
    ELSE LET r == Dispatch(event, rule, acc.m)
         IN  [m |-> r.m,
              alerts |-> IF ~r.threw /\ r.alert # Null
                         THEN Append(acc.alerts, r.alert) ELSE acc.alerts,
              threw |-> IF r.threw THEN acc.threw \cup {rule.id} ELSE acc.threw,
              evaluated |-> Append(acc.evaluated, rule.id)]

\* a variant of the loop body that pushes a returned alert twice
RuleStep_Twice(event, rule, acc) ==
    LET r == Dispatch(event, rule, acc.m)
    IN  [m |-> r.m,
         alerts |-> IF ~r.threw /\ r.alert # Null
                    THEN Append(Append(acc.alerts, r.alert), r.alert) ELSE acc.alerts,
         threw |-> IF r.threw THEN acc.threw \cup {rule.id} ELSE acc.threw,
         evaluated |-> Append(acc.evaluated, rule.id)]

\* one iteration of the loop of processEvent, with its try/catch
RuleStep(event, rule, acc) ==
    LET r == Dispatch(event, rule, acc.m)
    IN  [m |-> r.m,
         alerts |-> IF ~r.threw /\ r.alert # Null
                    THEN Append(acc.alerts, r.alert) ELSE acc.alerts,
         threw |-> IF r.threw THEN acc.threw \cup {rule.id} ELSE acc.threw,
         evaluated |-> Append(acc.evaluated, rule.id)]

RECURSIVE RunRules(_, _, _, _)
RunRules(event, enabled, i, acc) ==
    IF i > Len(enabled) THEN acc
    ELSE RunRules(event, enabled, i + 1, RuleStep(event, enabled[i], acc))

ProcessEventWith(event, enabled, m) ==
    RunRules(event, enabled, 1,
             [m |-> m, alerts |-> <<>>, threw |-> {}, evaluated |-> <<>>])

ProcessEvent(event, m) == ProcessEventWith(event, GetEnabled(m.rules), m)

\* a variant of the callback that deletes nothing
SweepMap_Never(map, at) == map

\* a variant of the callback that deletes every entry, whatever its age
SweepMap_All(map, at) == << >>

\* the callback of the cleanup timer
SweepMap(map, at) ==
    [k \in {key \in DOMAIN map : ~((at - map[key].window_start) > MaxAgeMs)} |-> map[k]]

----------------------------------------------------------------------------
(* History of the calls, kept for the properties only *)

Idle == [t |-> "idle"]

NoCall == [event |-> Null, at |-> 0, stored |-> FALSE, alerts |-> <<>>,
           threw |-> {}, evaluated |-> <<>>, enabled |-> {}]

RuleEnabled(rows, id) == \E i \in DOMAIN rows : rows[i].id = id /\ rows[i].enabled

AlertedBy(call, id) == \E i \in DOMAIN call.alerts : call.alerts[i].rule_id = id

KeepLast(s, n) == IF Len(s) > n THEN SubSeq(s, Len(s) - n + 1, Len(s)) ELSE s

ThrNeeded == OrDefault(ThrRule.conditions, "threshold", 5)
ThrWindowMs == OrDefault(ThrRule.conditions, "window_seconds", 60) * 1000
CorNeeded == OrDefault(CorRule.conditions.sequence[1], "count", 3)
CorWindowMs == OrDefault(CorRule.conditions.sequence[1], "window_seconds", 300) * 1000

GroupOf(event) == ToStr(GetFieldValue(event, SourceIp))

\* the threshold rule saw a matching event of group g: remember when, the event's
\* timestamp, whether the group had no state, and whether an alert was returned or
\* its creation raised
ThrTrailNext(event, result) ==
    IF /\ RuleEnabled(rules, "thr")
       /\ MatchesCondition(event, ThrRule.conditions)
       /\ GroupOf(event) \in Groups
    THEN LET g == GroupOf(event)
             entry == [at |-> now, ts |-> GetTime(event.f.timestamp),
                       threw |-> "thr" \in result.threw,
                       fresh |-> StateKey(ThrRule, Str(g)) \notin DOMAIN thresholdState,
                       alert |-> AlertedBy(result, "thr")]
         IN  [thrTrail EXCEPT ![g] = KeepLast(Append(@, entry), ThrNeeded)]
    ELSE thrTrail

\* the correlation rule: the timestamps of the stage-0 events of group g processed
\* since the rule last returned an alert for g
CorTrailNext(event, result) ==
    IF RuleEnabled(rules, "cor") /\ GroupOf(event) \in Groups
    THEN LET g == GroupOf(event)
         IN  IF AlertedBy(result, "cor") THEN [corTrail EXCEPT ![g] = <<>>]
             ELSE IF MatchesCondition(event, CorRule.conditions.sequence[1].match)
                 THEN [corTrail EXCEPT
                          ![g] = KeepLast(Append(@, GetTime(event.f.timestamp)), CorNeeded)]
             ELSE corTrail
    ELSE corTrail

----------------------------------------------------------------------------
(* Actions *)

Init ==
    /\ now = 0
    /\ thresholdState = << >>
    /\ rules = [i \in DOMAIN InstalledRules |-> RuleRow(InstalledRules[i])]
    /\ events = {}
    /\ alerts = {}
    /\ pending = {}
    /\ nextId = 1
    /\ toggles = 0
    /\ last = NoCall
    /\ thrTrail = [g \in Groups |-> <<>>]
    /\ corTrail = [g \in Groups |-> <<>>]
    /\ running = Idle
    /\ probe = Idle

\* the call processEvent(event) made by a route, with the events table as it is then
Detect(event, stored) ==
    LET result == ProcessEvent(event, [thresholdState |-> thresholdState,
                                       events |-> stored, alerts |-> alerts,
                                       rules |-> rules])
    IN  /\ thresholdState' = result.m.thresholdState
        /\ alerts' = result.m.alerts
        /\ rules' = result.m.rules
        /\ last' = [event |-> event, at |-> now,
                    stored |-> event.f.id.v \in stored,
                    alerts |-> result.alerts, threw |-> result.threw,
                    evaluated |-> result.evaluated,
                    enabled |-> {rules[i].id : i \in {j \in DOMAIN rules : rules[j].enabled}}]
        /\ thrTrail' = ThrTrailNext(event, result)
        /\ corTrail' = CorTrailNext(event, result)

\* POST /api/ingest/single: the event is inserted, then run through the engine
IngestSingle(record) ==
    /\ pending = {}
    /\ nextId <= MaxEvents
    /\ events' = events \cup {nextId}
    /\ Detect(MkEvent(nextId, now - record.lag, record), events \cup {nextId})
    /\ nextId' = nextId + 1
    /\ UNCHANGED <<now, pending, toggles, running, probe>>

\* POST /api/ingest/batch, one record of the loop: parsed, run through the engine,
\* kept in parsedEvents
IngestBatchRecord(record) ==
    /\ nextId <= MaxEvents
    /\ Cardinality(pending) < MaxBatch
    /\ Detect(MkEvent(nextId, now - record.lag, record), events)
    /\ pending' = pending \cup {nextId}
    /\ nextId' = nextId + 1
    /\ UNCHANGED <<now, events, toggles, running, probe>>

\* POST /api/ingest/batch after the loop: eventOps.insertBatch(parsedEvents)
IngestBatchInsert ==
    /\ pending # {}
    /\ events' = events \cup pending
    /\ pending' = {}
    /\ UNCHANGED <<now, thresholdState, rules, alerts, nextId, toggles,
                   last, thrTrail, corTrail, running, probe>>

\* a variant that starts the match count again
ToggleEnabled_Reset(rows, id, enabled) ==
    [i \in DOMAIN rows |->
        IF rows[i].id = id
        THEN [rows[i] EXCEPT !.enabled = enabled, !.match_count = 0]
        ELSE rows[i]]

\* ruleOps.toggleEnabled
ToggleEnabled(rows, id, enabled) ==
    [i \in DOMAIN rows |->
        IF rows[i].id = id THEN [rows[i] EXCEPT !.enabled = enabled] ELSE rows[i]]

\* PATCH /api/rules/:id
PatchRule(id, enabled) ==
    /\ pending = {}
    /\ toggles < MaxToggles
    /\ rules' = ToggleEnabled(rules, id, enabled)
    /\ toggles' = toggles + 1
    /\ UNCHANGED <<now, thresholdState, events, alerts, pending, nextId,
                   last, thrTrail, corTrail, running, probe>>

\* the cleanup timer fires: the wall clock has advanced by its interval and the
\* setInterval callback runs
Sweep ==
    /\ pending = {}
    /\ now < MaxTicks * SweepIntervalMs
    /\ now' = now + SweepIntervalMs
    /\ thresholdState' = SweepMap(thresholdState, now + SweepIntervalMs)
    /\ UNCHANGED <<rules, events, alerts, pending, nextId, toggles, last,
                   thrTrail, corTrail, running, probe>>

Next ==
    \/ \E record \in Records : IngestSingle(record)
    \/ \E record \in Records : IngestBatchRecord(record)
    \/ IngestBatchInsert
    \/ Sweep

Spec == Init /\ [][Next]_vars

\* the records sent while rules are toggled: one per rule type
ToggleRecords ==
    {r \in Records : r.lag = 0 /\ (Has(r.parsed_data, "source_ip") => r.parsed_data.source_ip = Str("a"))}

\* ingestion interleaved with the rule toggle of the rules route
NextToggle ==
    \/ \E record \in ToggleRecords : IngestSingle(record)
    \/ \E record \in ToggleRecords : IngestBatchRecord(record)
    \/ IngestBatchInsert
    \/ \E id \in RuleIds, enabled \in BOOLEAN : PatchRule(id, enabled)

SpecToggle == Init /\ [][NextToggle]_vars

----------------------------------------------------------------------------
(* Ingestion of auth-log lines whose source address is the text "undefined" *)
(* and of lines that have no source address.                                *)

SudoFailure == [auth_type |-> Str("sudo"), auth_result |-> Str("failure")]
SudoSuccess == [auth_type |-> Str("sudo"), auth_result |-> Str("success"),
                target_user |-> Str("bob")]

GroupRecords ==
    {[event_type |-> "authentication", parsed_data |-> pd, lag |-> 0] :
        pd \in {SshFailure("a"), SshFailure("undefined"), SshSuccess("undefined"),
                SudoFailure, SudoSuccess}}

\* the values the group_by field takes in these records
GroupValues == {Str("a"), Str("undefined"), Undefined}

NextGroups == \E record \in GroupRecords : IngestSingle(record)

SpecGroups == Init /\ [][NextGroups]_vars

----------------------------------------------------------------------------
(* The cleanup timer over a long quiet period: events arrive during the     *)
(* first ticks of the timer, which then keeps firing until every entry made *)
(* in those ticks is older than the maximum age.                            *)

LastIngestTick == 1

QuietTicks == LastIngestTick + MaxAgeMs \div SweepIntervalMs + 1

QuietRecords == {r \in Records : r.lag = 0 /\ Has(r.parsed_data, "source_ip")}

EarlyIngest(record) ==
    /\ now <= LastIngestTick * SweepIntervalMs
    /\ IngestSingle(record)

\* the timer fires: the wall clock has advanced by the interval and the callback runs
SweepTick ==
    /\ now < QuietTicks * SweepIntervalMs
    /\ now' = now + SweepIntervalMs
    /\ thresholdState' = SweepMap(thresholdState, now + SweepIntervalMs)
    /\ UNCHANGED <<rules, events, alerts, pending, nextId, toggles, last,
                   thrTrail, corTrail, running, probe>>

NextSweep ==
    \/ \E record \in QuietRecords : EarlyIngest(record)
    \/ SweepTick

\* setInterval keeps firing the callback
SpecSweep == Init /\ [][NextSweep]_vars /\ WF_vars(SweepTick)

----------------------------------------------------------------------------
(* The same routes with processEvent unfolded into the iterations of its  *)
(* rule loop.  The routes, the loop and the timer callback contain no      *)
(* await: each runs on the one JavaScript thread until it returns.         *)

\* a variant in which a request or the timer may run while a call is on the stack
CallStackEmpty_Any == TRUE

\* no processEvent call is on the stack
CallStackEmpty == running = Idle

\* processEvent is entered: const alerts = []; const rules = ruleOps.getEnabled()
ProcessEnter(event) ==
    running' = [event |-> event, enabled |-> GetEnabled(rules), i |-> 1,
                alerts |-> <<>>, threw |-> {}, evaluated |-> <<>>,
                before |-> [thresholdState |-> thresholdState, alerts |-> alerts,
                            rules |-> rules],
                enabledIds |-> {rules[i].id : i \in {j \in DOMAIN rules : rules[j].enabled}}]

\* POST /api/ingest/single up to the call of processEvent
SingleEnter(record) ==
    /\ CallStackEmpty
    /\ pending = {}
    /\ nextId <= MaxEvents
    /\ events' = events \cup {nextId}
    /\ ProcessEnter(MkEvent(nextId, now - record.lag, record))
    /\ nextId' = nextId + 1
    /\ UNCHANGED <<now, thresholdState, rules, alerts, pending, toggles, last,
                   thrTrail, corTrail, probe>>

\* POST /api/ingest/batch, one record of the loop up to the call of processEvent
BatchEnter(record) ==
    /\ CallStackEmpty
    /\ nextId <= MaxEvents
    /\ Cardinality(pending) < MaxBatch
    /\ pending' = pending \cup {nextId}
    /\ ProcessEnter(MkEvent(nextId, now - record.lag, record))
    /\ nextId' = nextId + 1
    /\ UNCHANGED <<now, thresholdState, rules, events, alerts, toggles, last,
                   thrTrail, corTrail, probe>>

\* one iteration of the rule loop, on the map and the tables as they are now
ProcessRule ==
    /\ running # Idle
    /\ running.i <= Len(running.enabled)
    /\ LET acc == RuleStep(running.event, running.enabled[running.i],
                           [m |-> [thresholdState |-> thresholdState,
                                   events |-> events, alerts |-> alerts,
                                   rules |-> rules],
                            alerts |-> running.alerts, threw |-> running.threw,
                            evaluated |-> running.evaluated])
       IN  /\ thresholdState' = acc.m.thresholdState
           /\ alerts' = acc.m.alerts
           /\ rules' = acc.m.rules
           /\ running' = [running EXCEPT !.i = @ + 1, !.alerts = acc.alerts,
                                         !.threw = acc.threw,
                                         !.evaluated = acc.evaluated]
    /\ UNCHANGED <<now, events, pending, nextId, toggles, last, thrTrail, corTrail, probe>>

\* return { alerts }
ProcessReturn ==
    /\ running # Idle
    /\ running.i > Len(running.enabled)
    /\ last' = [event |-> running.event, at |-> now,
                stored |-> running.event.f.id.v \in events,
                alerts |-> running.alerts, threw |-> running.threw,
                evaluated |-> running.evaluated, enabled |-> running.enabledIds]
    /\ running' = Idle
    /\ UNCHANGED <<now, thresholdState, rules, events, alerts, pending, nextId,
                   toggles, thrTrail, corTrail, probe>>

\* eventOps.insertBatch after the loop of POST /api/ingest/batch
BatchInsert == CallStackEmpty /\ IngestBatchInsert

\* the cleanup timer's callback
TimerSweep == CallStackEmpty /\ Sweep

NextSteps ==
    \/ \E record \in ToggleRecords : SingleEnter(record)
    \/ \E record \in ToggleRecords : BatchEnter(record)
    \/ ProcessRule
    \/ ProcessReturn
    \/ BatchInsert
    \/ TimerSweep

SpecSteps == Init /\ [][NextSteps]_vars

----------------------------------------------------------------------------
(* The condition matcher on its own: matchesCondition applied to one event *)
(* and one condition node.                                                 *)

Txt(chars) == Str(chars)

PathA == <<"a">>
PathBC == <<"b", "c">>

\* events whose fields a and b.c are a text, the empty text, a number, null or missing
EvAb == Obj([a |-> Txt(<<"A", "b">>), b |-> Obj([c |-> Num(1)])])
EvEmpty == Obj([a |-> Txt(<<>>)])
EvNull == Obj([a |-> Null, b |-> Null])
EvBo == Obj([b |-> Obj([c |-> Txt(<<"b", "o">>)])])
EvZero == Obj([a |-> Num(0), b |-> Txt(<<"a">>)])
EvDeepNull == Obj([a |-> Txt(<<"a", "b">>), b |-> Obj([c |-> Null])])

MatchEvents == {EvAb, EvEmpty, EvNull, EvBo, EvZero, EvDeepNull}

\* a node with the one key k
Single(k, v) == k :> v

\* nodes that carry one check on one field
LeafChecks ==
    {Single("equals", v) : v \in {Txt(<<"A", "b">>), Num(1), Null}}
    \cup {Single("contains", v) : v \in {Txt(<<"B">>), Txt(<<>>), Num(1)}}
    \cup {Single("contains_any", v) : v \in {<<Txt(<<"a">>), Txt(<<"O">>)>>, <<>>}}
    \cup {Single("matches", v) : v \in {Txt(<<"a", ".">>), Txt(<<"b">>), Txt(<<"(">>)}}

Leaves == {Single("field", f) @@ c : f \in {PathA, PathBC}, c \in LeafChecks}

\* the leaves the composite nodes are built from
LeafEq == [field |-> PathA, equals |-> Txt(<<"A", "b">>)]
LeafHas == [field |-> PathBC, contains |-> Txt(<<"B">>)]
LeafBad == [field |-> PathA, matches |-> Txt(<<"(">>)]
Parts == {LeafEq, LeafHas, LeafBad}

Lists == {<<>>} \cup {<<x>> : x \in Parts} \cup {<<x, y>> : x, y \in Parts}

\* nodes with one composition key
Composites ==
    {Single("all", l) : l \in Lists} \cup {Single("any", l) : l \in Lists}
    \cup {Single("not", c) : c \in Parts \cup {Null}}
    \cup {Single("additional", c) : c \in Parts \cup {Null}}

\* a key that may be absent
Opt(k, values) == {<< >>} \cup {Single(k, v) : v \in values}

\* nodes on field a that carry any combination of the eight checks
Combined ==
    {Single("field", PathA) @@ e @@ c @@ ca @@ r @@ n @@ ad @@ an @@ al :
        e \in Opt("equals", {Txt(<<"A", "b">>)}),
        c \in Opt("contains", {Txt(<<"B">>)}),
        ca \in Opt("contains_any", {<<Txt(<<"o">>)>>}),
        r \in Opt("matches", {Txt(<<"a", ".">>), Txt(<<"(">>)}),
        n \in Opt("not", {LeafHas}),
        ad \in Opt("additional", {LeafHas}),
        an \in Opt("any", {<<LeafHas>>}),
        al \in Opt("all", {<<LeafEq>>})}

MatchConditions == Leaves \cup Composites \cup Combined \cup {Null}

InitMatch ==
    /\ now = 0
    /\ thresholdState = << >>
    /\ rules = [i \in DOMAIN InstalledRules |-> RuleRow(InstalledRules[i])]
    /\ events = {}
    /\ alerts = {}
    /\ pending = {}
    /\ nextId = 1
    /\ toggles = 0
    /\ last = NoCall
    /\ thrTrail = [g \in Groups |-> <<>>]
    /\ corTrail = [g \in Groups |-> <<>>]
    /\ running = Idle
    /\ probe \in {[event |-> e, condition |-> c, done |-> FALSE, result |-> FALSE,
                     value |-> Undefined] :
                     e \in MatchEvents, c \in MatchConditions}

\* matchesCondition(event, condition)
Match ==
    /\ ~probe.done
    /\ probe' = [probe EXCEPT !.done = TRUE,
                              !.result = MatchesCondition(probe.event, probe.condition),
                              !.value = GetFieldValue(probe.event,
                                                      FieldOf(probe.condition))]
    /\ UNCHANGED <<now, thresholdState, rules, events, alerts, pending, nextId,
                   toggles, last, thrTrail, corTrail, running>>

NextMatch == Match

SpecMatch == InitMatch /\ [][NextMatch]_vars

----------------------------------------------------------------------------
(* The parsers.  A raw record is given by what the parsers' regular          *)
(* expressions and typeof see in it:                                        *)
(*   kind "value": not a string (a number, null, an object);                *)
(*   kind "bsd":   a line SYSLOG_BSD_REGEX matches, with its captured       *)
(*                 priority (-1: none), month word, program and message;    *)
(*   kind "iso":   a line SYSLOG_ISO_REGEX matches, with the month number   *)
(*                 of its date, program and message;                        *)
(*   kind "text":  any other string, by its characters.                     *)
(* A program is given lower-cased; a message by the keywords of             *)
(* classifyEvent it contains and the auth patterns that match it.           *)
(* A parser returns [threw, event].                                         *)

Raised == [threw |-> TRUE, event |-> Null]
Parsed(event) == [threw |-> FALSE, event |-> event]

MONTHS == {"Jan", "Feb", "Mar", "Apr", "May", "Jun", "Jul", "Aug", "Sep", "Oct",
           "Nov", "Dec"}

\* parsePriority: parseInt(priority) || 13
ParsePriority(priority) ==
    LET pri == IF priority = -1 \/ priority = 0 THEN 13 ELSE priority
    IN  [facility |-> pri \div 8, severity |-> pri % 8]

MapSeverity(syslogSeverity) ==
    IF syslogSeverity <= 2 THEN "critical"
    ELSE IF syslogSeverity <= 4 THEN "warning"
    ELSE "info"

\* parseTimestamp: date.toISOString() raises a RangeError on an invalid date, which
\* new Date(year, MONTHS[word], ...) is when the word is not a key of MONTHS
ParseTimestampThrows(month) == month \notin MONTHS

\* new Date(isoTimestamp).toISOString() raises when the text is not a date
IsoDateThrows(month) == month \notin 1..12

ClassifyEvent(program, message) ==
    IF program \in {"sshd", "su", "sudo", "login", "passwd"} THEN "authentication"
    ELSE IF program \in {"iptables", "ufw", "firewalld"}
            \/ "firewall" \in message.keywords THEN "firewall"
    ELSE IF program \in {"dhclient", "networkmanager"}
            \/ "connection" \in message.keywords THEN "network"
    ELSE IF program \in {"kernel", "systemd", "init"} THEN "system"
    ELSE IF program = "cron"
            \/ message.keywords \cap {"process", "started", "stopped"} # {} THEN "process"
    ELSE "system"

\* rawLog.trim(), on the blank the model's texts use
RECURSIVE TrimStart(_)
TrimStart(chars) ==
    IF chars # <<>> /\ Head(chars) = " " THEN TrimStart(Tail(chars)) ELSE chars

RECURSIVE TrimEnd(_)
TrimEnd(chars) ==
    IF chars # <<>> /\ chars[Len(chars)] = " "
    THEN TrimEnd(SubSeq(chars, 1, Len(chars) - 1))
    ELSE chars

Trim(chars) == TrimEnd(TrimStart(chars))

\* metadata.hostname || 'unknown'
OrUnknown(metadata) ==
    IF "hostname" \in DOMAIN metadata /\ ~Falsy(metadata.hostname)
    THEN metadata.hostname ELSE Str("unknown")

\* syslogParser.parse
SyslogParse(rawLog, metadata) ==
    IF rawLog.kind = "value" THEN Raised
    ELSE IF rawLog.kind = "bsd" THEN
        IF ParseTimestampThrows(rawLog.month) THEN Raised
        ELSE Parsed([timestamp |-> Str("resolved"), source |-> Str("syslog"),
                     hostname |-> Str("host"),
                     event_type |-> Str(ClassifyEvent(rawLog.program, rawLog.message)),
                     severity |-> Str(MapSeverity(ParsePriority(rawLog.priority).severity)),
                     description |-> Str(<<"[", rawLog.program, "] ", rawLog.message.id>>),
                     message |-> rawLog.message,
                     format |-> Str("bsd"),
                     facility |-> Num(ParsePriority(rawLog.priority).facility),
                     syslog_severity |-> Num(ParsePriority(rawLog.priority).severity)])
    ELSE IF rawLog.kind = "iso" THEN
        IF IsoDateThrows(rawLog.month) THEN Raised
        ELSE Parsed([timestamp |-> Str("resolved"), source |-> Str("syslog"),
                     hostname |-> Str("host"),
                     event_type |-> Str(ClassifyEvent(rawLog.program, rawLog.message)),
                     severity |-> Str("info"),
                     description |-> Str(<<"[", rawLog.program, "] ", rawLog.message.id>>),
                     message |-> rawLog.message,
                     format |-> Str("iso"),
                     facility |-> Undefined, syslog_severity |-> Undefined])
    ELSE Parsed([timestamp |-> Str("now"), source |-> Str("syslog"),
                 hostname |-> OrUnknown(metadata),
                 event_type |-> Str("system"), severity |-> Str("info"),
                 description |-> Str(Trim(rawLog.chars)),
                 message |-> [id |-> "", keywords |-> {}, patterns |-> rawLog.patterns],
                 format |-> Str("non-standard"),
                 facility |-> Undefined, syslog_severity |-> Undefined])

\* the patterns, in the order parseAuthEvent tries them
PatternOrder ==
    <<"SSH_FAILED", "SSH_SUCCESS", "SSH_INVALID_USER", "SUDO_SUCCESS", "SUDO_FAILURE",
      "SU_SUCCESS", "SU_FAILURE", "PAM_AUTH_FAILURE", "PAM_SESSION", "PASSWORD_CHANGED",
      "USER_ADDED">>

\* the target user a sudo or su message captures is root
ToRoot(message) == "root" \in DOMAIN message /\ message.root

\* the fields one pattern's branch assigns; a field it leaves alone is not in the record
Branch(pattern, message) ==
    LET set(severity, user, prefix, type, outcome) ==
            [severity |-> Str(severity), user |-> user,
             description |-> Str(<<prefix, message.id>>),
             auth_type |-> type, auth_result |-> outcome]
             @@ (IF type = Str("ssh") THEN [source_ip |-> Str("a")] ELSE << >>)
        who == Str("user")
    IN  CASE pattern = "SSH_FAILED" ->
                 set("warning", who, "SSH failed login for ", Str("ssh"), Str("failure"))
          [] pattern = "SSH_SUCCESS" ->
                 set("info", who, "SSH successful login for ", Str("ssh"), Str("success"))
          [] pattern = "SSH_INVALID_USER" ->
                 set("warning", who, "SSH invalid user ", Str("ssh"), Str("invalid_user"))
          [] pattern = "SUDO_SUCCESS" ->
                 IF ToRoot(message)
                 THEN [event_type |-> Str("privilege")]
                      @@ set("warning", who, "Privilege escalation: ", Str("sudo"),
                             Str("success"))
                 ELSE set("info", who, "Sudo: ", Str("sudo"), Str("success"))
          [] pattern = "SUDO_FAILURE" ->
                 set("warning", who, "Sudo authentication failure for ", Str("sudo"),
                     Str("failure"))
          [] pattern = "SU_SUCCESS" ->
                 IF ToRoot(message)
                 THEN [event_type |-> Str("privilege")]
                      @@ set("warning", who, "SU: ", Str("su"), Str("success"))
                 ELSE set("info", who, "SU: ", Str("su"), Str("success"))
          [] pattern = "SU_FAILURE" ->
                 set("warning", who, "SU failed: ", Str("su"), Str("failure"))
          [] pattern = "PAM_AUTH_FAILURE" ->
                 set("warning", who, "PAM authentication failure for ", Str("pam"),
                     Str("failure"))
          [] pattern = "PAM_SESSION" ->
                 [severity |-> Str("info"), user |-> who,
                  description |-> Str(<<"Session ", message.id>>),
                  auth_type |-> Str("pam")]
          [] pattern = "PASSWORD_CHANGED" ->
                 [severity |-> Str("warning"), user |-> who,
                  description |-> Str(<<"Password changed for ", message.id>>),
                  event_type |-> Str("account")]
          [] OTHER ->
                 [severity |-> Str("warning"),
                  description |-> Str(<<"New user created: ", message.id>>),
                  event_type |-> Str("account")]

\* parseAuthEvent: the first pattern that matches the message sets the fields
ParseAuthEvent(message, baseParsed) ==
    LET result == [event_type |-> Str("authentication")] @@ baseParsed
                  @@ [user |-> Undefined, auth_type |-> Undefined,
                      auth_result |-> Undefined, source_ip |-> Undefined]
        matching == {i \in DOMAIN PatternOrder : PatternOrder[i] \in message.patterns}
    IN  IF matching = {} THEN result
        ELSE LET first == CHOOSE i \in matching : \A j \in matching : i <= j
             IN  Branch(PatternOrder[first], message) @@ result

\* authLogParser.parse
AuthParse(rawLog, metadata) ==
    LET baseParsed == SyslogParse(rawLog, metadata)
    IN  IF baseParsed.threw THEN Raised
        ELSE Parsed([ParseAuthEvent(baseParsed.event.message, baseParsed.event)
                        EXCEPT !.source = Str("auth")])

\* EVENT_MAPPINGS[eventId]: the object literal's own keys, and the keys every object
\* inherits from Object.prototype, whose values have no type, severity or desc
OwnMappings ==
    (4624 :> [type |-> Str("authentication"), severity |-> Str("info"),
              desc |-> Str("Successful logon")])
    @@ (4625 :> [type |-> Str("authentication"), severity |-> Str("warning"),
                 desc |-> Str("Failed logon")])
    @@ (1102 :> [type |-> Str("security"), severity |-> Str("critical"),
                 desc |-> Str("Audit log cleared")])

InheritedKeys == {"constructor", "toString", "valueOf", "hasOwnProperty", "__proto__"}

EventMapping(eventId) ==
    IF eventId.t = "number" /\ eventId.v \in DOMAIN OwnMappings
    THEN OwnMappings[eventId.v]
    ELSE IF eventId.t = "string" /\ eventId.v \in InheritedKeys
    THEN [type |-> Undefined, severity |-> Undefined, desc |-> Undefined]
    ELSE [type |-> Str("windows"), severity |-> Str("info"),
          desc |-> Str(<<"Windows Event ", ToStr(eventId)>>)]

\* a || b
Either(a, b) == IF Falsy(a) THEN b ELSE a

\* parseWindowsEvent, for events that carry no Properties
ParseWindowsEvent(event) ==
    IF event = Null \/ event = Undefined THEN Raised
    ELSE LET eventId == Either(Prop(event, "Id"),
                               Either(Prop(event, "EventId"), Prop(event, "event_id")))
             mapping == EventMapping(eventId)
         IN  Parsed([timestamp |-> Either(Prop(event, "TimeCreated"),
                                          Either(Prop(event, "time_created"), Str("now"))),
                     source |-> Str("windows"),
                     hostname |-> Either(Prop(event, "MachineName"),
                                         Either(Prop(event, "Computer"),
                                                Prop(event, "hostname"))),
                     event_type |-> mapping.type,
                     severity |-> mapping.severity,
                     description |-> mapping.desc,
                     message |-> [id |-> "", keywords |-> {}, patterns |-> {}],
                     format |-> Undefined,
                     facility |-> Undefined, syslog_severity |-> Undefined])

\* JSON.parse on the texts of the model
JsonParse(chars) ==
    CASE chars = <<"n", "u", "l", "l">> -> [threw |-> FALSE, value |-> Null]
      [] chars = <<"5">> -> [threw |-> FALSE, value |-> Num(5)]
      [] chars = <<"{", "}">> -> [threw |-> FALSE, value |-> Obj(<< >>)]
      [] OTHER -> [threw |-> TRUE, value |-> Undefined]

\* the characters of a raw line
RawText(raw) ==
    IF raw.kind = "text" THEN raw.chars
    ELSE <<raw.kind, raw.program, raw.message.id>>

\* windowsEventParser.parse
WindowsParse(rawData, metadata) ==
    IF rawData.kind = "value" THEN ParseWindowsEvent(rawData.value)
    ELSE IF rawData.kind # "text" THEN
        Parsed([timestamp |-> Str("now"), source |-> Str("windows"),
                hostname |-> OrUnknown(metadata),
                event_type |-> Str("windows"), severity |-> Str("info"),
                description |-> Str(RawText(rawData)),
                message |-> [id |-> "", keywords |-> {}, patterns |-> {}],
                format |-> Str("non-json"),
                facility |-> Undefined, syslog_severity |-> Undefined])
    ELSE LET decoded == JsonParse(rawData.chars)
         IN  IF decoded.threw
             THEN Parsed([timestamp |-> Str("now"), source |-> Str("windows"),
                          hostname |-> OrUnknown(metadata),
                          event_type |-> Str("windows"), severity |-> Str("info"),
                          description |-> Str(rawData.chars),
                          message |-> [id |-> "", keywords |-> {}, patterns |-> {}],
                          format |-> Str("non-json"),
                          facility |-> Undefined, syslog_severity |-> Undefined])
             ELSE ParseWindowsEvent(decoded.value)

\* PARSERS[source].parse
Parse(parser, raw, metadata) ==
    CASE parser = "syslog" -> SyslogParse(raw, metadata)
      [] parser = "auth" -> AuthParse(raw, metadata)
      [] OTHER -> WindowsParse(raw, metadata)

\* what a line's message holds
Message(id, keywords, patterns) == [id |-> id, keywords |-> keywords, patterns |-> patterns]

Messages ==
    {Message("hello", {}, {}),
     Message("Failed password for root from 10.0.0.1 port 22", {}, {"SSH_FAILED"}),
     Message("new user: name=eve, UID=1001", {}, {"USER_ADDED"}),
     Message("firewall reloaded", {"firewall"}, {}),
     Message("connection reset", {"connection"}, {}),
     Message("job started", {"started"}, {})}

Programs == {"sshd", "ufw", "dhclient", "kernel", "cron", "myapp"}

Priorities == {-1, 0, 10, 13, 34, 86, 191}

BsdLines ==
    {[kind |-> "bsd", priority |-> p, month |-> m, program |-> g, message |-> msg] :
        p \in Priorities, m \in {"Jan", "Foo"}, g \in Programs, msg \in Messages}

IsoLines ==
    {[kind |-> "iso", month |-> m, program |-> g, message |-> msg] :
        m \in {1, 13}, g \in Programs, msg \in Messages}

Texts ==
    {[kind |-> "text", chars |-> c, patterns |-> {}] :
        c \in {<<>>, <<"x">>, <<" ", "x", " ">>, <<"n", "u", "l", "l">>, <<"5">>,
               <<"{", "}">>}}
    \cup {[kind |-> "text", chars |-> <<"F", "a", "i", "l", "e", "d">>,
           patterns |-> {"SSH_FAILED"}]}

Values ==
    {[kind |-> "value", value |-> v] :
        v \in {Num(5),
               Obj([Id |-> Num(4625)]),
               Obj([EventId |-> Num(1102)]),
               Obj([Id |-> Num(9999), TimeCreated |-> Str("t")]),
               Obj([Id |-> Str("constructor")]),
               Obj(<< >>)}}

\* one line for every priority value the protocol has
MaxPriority == 191

PriorityLines ==
    {[kind |-> "bsd", priority |-> p, month |-> "Jan", program |-> "myapp",
      message |-> Message("hello", {}, {})] : p \in 0..MaxPriority}

\* messages of an auth log: what one or two of the patterns match, naming root as
\* the target user or not
AuthMessages ==
    {Message("auth", {}, ps) @@ [root |-> r] :
        ps \in {q \in SUBSET {PatternOrder[i] : i \in DOMAIN PatternOrder} :
                   Cardinality(q) <= 2},
        r \in BOOLEAN}

AuthLines ==
    {[kind |-> "bsd", priority |-> 34, month |-> "Jan", program |-> g, message |-> msg] :
        g \in {"sshd", "cron"}, msg \in AuthMessages}

RawRecords ==
    BsdLines \cup IsoLines \cup Texts \cup Values \cup PriorityLines \cup AuthLines

Metadatas == {<< >>, [hostname |-> Str("web1")], [hostname |-> Str("")]}

InitParse ==
    /\ now = 0
    /\ thresholdState = << >>
    /\ rules = [i \in DOMAIN InstalledRules |-> RuleRow(InstalledRules[i])]
    /\ events = {}
    /\ alerts = {}
    /\ pending = {}
    /\ nextId = 1
    /\ toggles = 0
    /\ last = NoCall
    /\ thrTrail = [g \in Groups |-> <<>>]
    /\ corTrail = [g \in Groups |-> <<>>]
    /\ running = Idle
    /\ probe \in {[parser |-> p, raw |-> r, metadata |-> m, done |-> FALSE,
                   result |-> Raised] :
                     p \in {"syslog", "auth", "windows"}, r \in RawRecords,
                     m \in Metadatas}

\* parser.parse(log, metadata), as the ingest routes call it
ParseRecord ==
    /\ ~probe.done
    /\ probe' = [probe EXCEPT !.done = TRUE,
                              !.result = Parse(probe.parser, probe.raw, probe.metadata)]
    /\ UNCHANGED <<now, thresholdState, rules, events, alerts, pending, nextId,
                   toggles, last, thrTrail, corTrail, running>>

NextParse == ParseRecord

SpecParse == InitParse /\ [][NextParse]_vars

----------------------------------------------------------------------------
(* parseTimestamp.  A Date is a number of half days since 1 January of the   *)
(* first year of the model's calendar: the day, and whether the time of day *)
(* is before or after noon.  new Date(year, month, day, ...) and            *)
(* setFullYear carry a day that the month does not have into the following  *)
(* month, as the Date object does.                                          *)

Years == 2023..2025

MonthIndex ==
    [m \in MONTHS |->
        CASE m = "Jan" -> 0 [] m = "Feb" -> 1 [] m = "Mar" -> 2 [] m = "Apr" -> 3
          [] m = "May" -> 4 [] m = "Jun" -> 5 [] m = "Jul" -> 6 [] m = "Aug" -> 7
          [] m = "Sep" -> 8 [] m = "Oct" -> 9 [] m = "Nov" -> 10 [] OTHER -> 11]

IsLeap(year) == (year % 4 = 0 /\ year % 100 # 0) \/ year % 400 = 0

DaysInMonth(year, month) ==
    IF month = 1 THEN (IF IsLeap(year) THEN 29 ELSE 28)
    ELSE IF month \in {3, 5, 8, 10} THEN 30
    ELSE 31

RECURSIVE DaysBeforeMonth(_, _)
DaysBeforeMonth(year, month) ==
    IF month = 0 THEN 0
    ELSE DaysBeforeMonth(year, month - 1) + DaysInMonth(year, month - 1)

RECURSIVE DaysBeforeYear(_)
DaysBeforeYear(year) ==
    IF year \notin Years \/ year - 1 \notin Years THEN 0
    ELSE DaysBeforeYear(year - 1) + DaysBeforeMonth(year - 1, 12)

\* new Date(year, month, day, hours, minutes, seconds)
DateValue(year, month, day, half) ==
    (DaysBeforeYear(year) + DaysBeforeMonth(year, month) + day - 1) * 2 + half

\* getFullYear(), getMonth(), getDate() of a Date
Fields(date) ==
    LET first == CHOOSE f \in Years \X (0..11) :
                     /\ DateValue(f[1], f[2], 1, 0) <= date
                     /\ date < DateValue(f[1], f[2], DaysInMonth(f[1], f[2]) + 1, 0)
    IN  [year |-> first[1], month |-> first[2],
         day |-> (date - DateValue(first[1], first[2], 1, 0)) \div 2 + 1,
         half |-> date % 2]

\* date.setFullYear(year)
SetFullYear(date, year) ==
    DateValue(year, Fields(date).month, Fields(date).day, Fields(date).half)

\* parseTimestamp(timestampStr), called when the clock reads clock
ParseTimestamp(stamp, clock) ==
    LET year == Fields(clock).year
        date == DateValue(year, MonthIndex[stamp.month], stamp.day, stamp.half)
    IN  IF date > clock THEN SetFullYear(date, year - 1) ELSE date

\* the timestamps SYSLOG_BSD_REGEX captures with a month of the calendar and a day
\* and a time of day that exist
Stamps == [month : MONTHS, day : 1..31, half : {0, 1}]

\* the clock readings of the model: around the turn of the year, around the end of
\* February, and in the middle of the year, in a leap year and in the year after it
Clocks ==
    {DateValue(y, md[1], md[2], h) :
        y \in {2024, 2025},
        md \in {<<0, 1>>, <<0, 2>>, <<1, 28>>, <<2, 1>>, <<5, 15>>, <<11, 31>>},
        h \in {0, 1}}
    \cup {DateValue(2024, 1, 29, h) : h \in {0, 1}}

InitClock ==
    /\ now = 0
    /\ thresholdState = << >>
    /\ rules = [i \in DOMAIN InstalledRules |-> RuleRow(InstalledRules[i])]
    /\ events = {}
    /\ alerts = {}
    /\ pending = {}
    /\ nextId = 1
    /\ toggles = 0
    /\ last = NoCall
    /\ thrTrail = [g \in Groups |-> <<>>]
    /\ corTrail = [g \in Groups |-> <<>>]
    /\ running = Idle
    /\ probe \in {[stamp |-> st, clock |-> c, done |-> FALSE, result |-> 0] :
                     st \in Stamps, c \in Clocks}

\* parseTimestamp on a BSD line's timestamp
ResolveTimestamp ==
    /\ ~probe.done
    /\ probe' = [probe EXCEPT !.done = TRUE,
                              !.result = ParseTimestamp(probe.stamp, probe.clock)]
    /\ UNCHANGED <<now, thresholdState, rules, events, alerts, pending, nextId,
                   toggles, last, thrTrail, corTrail, running>>

NextClock == ResolveTimestamp

SpecClock == InitClock /\ [][NextClock]_vars

----------------------------------------------------------------------------
(* POST /api/ingest/batch as a whole: the records of one request body are   *)
(* parsed and run through the engine one by one, then stored together, and  *)
(* the response is sent.                                                    *)

MaxRecords == 3

\* the bodies' records: lines for the auth parser, events and texts for the Windows parser
BatchItems(parser) ==
    IF parser = "auth"
    THEN {[kind |-> "bsd", priority |-> 34, month |-> m, program |-> "sshd",
           message |-> Message("auth", {}, ps)] :
              m \in {"Jan", "Foo"}, ps \in {{}, {"SSH_FAILED"}}}
    ELSE {[kind |-> "value", value |-> Obj([Id |-> Num(4625)])],
          [kind |-> "value", value |-> Obj([Id |-> Str("constructor")])],
          [kind |-> "text", chars |-> <<"n", "u", "l", "l">>, patterns |-> {}],
          [kind |-> "text", chars |-> <<"x">>, patterns |-> {}]}

Batches(parser) ==
    UNION {[1..n -> BatchItems(parser)] : n \in 1..MaxRecords}

\* the event object the route builds from what the parser returned
RouteEvent(id, parsed) ==
    LET keys == {k \in {"auth_type", "auth_result", "source_ip"} \cap DOMAIN parsed :
                    parsed[k] # Undefined}
    IN  Obj([id |-> Num(id), timestamp |-> Num(now),
             event_type |-> parsed.event_type,
             parsed_data |-> Obj([k \in keys |-> parsed[k]])])

\* a column declared NOT NULL is given no value: the insert statement raises
InsertRaises(parsed) ==
    \E k \in {"timestamp", "source", "event_type", "severity", "description"} :
        parsed[k] = Undefined \/ parsed[k] = Null

NoResponse == [status |-> 0]

InitBatch ==
    /\ now = 0
    /\ thresholdState = << >>
    /\ rules = [i \in DOMAIN InstalledRules |-> RuleRow(InstalledRules[i])]
    /\ events = {}
    /\ alerts = {}
    /\ pending = {}
    /\ nextId = 1
    /\ toggles = 0
    /\ last = NoCall
    /\ thrTrail = [g \in Groups |-> <<>>]
    /\ corTrail = [g \in Groups |-> <<>>]
    /\ running = Idle
    /\ probe \in UNION {{[parser |-> p, batch |-> b, i |-> 1, parsedEvents |-> <<>>,
                           ran |-> <<>>, alerts |-> 0, response |-> NoResponse] :
                             b \in Batches(p)} : p \in {"auth", "windows"}}

\* one iteration of the loop, when the parser raises: the catch logs the error
BatchSkip ==
    /\ probe.i <= Len(probe.batch)
    /\ Parse(probe.parser, probe.batch[probe.i], [hostname |-> Str("web1")]).threw
    /\ probe' = [probe EXCEPT !.i = @ + 1]
    /\ UNCHANGED <<now, thresholdState, rules, events, alerts, pending, nextId,
                   toggles, last, thrTrail, corTrail, running>>

\* one iteration of the loop: the record is parsed, pushed to parsedEvents and run
\* through the engine
BatchRecord ==
    /\ probe.i <= Len(probe.batch)
    /\ LET r == Parse(probe.parser, probe.batch[probe.i], [hostname |-> Str("web1")])
       IN  /\ ~r.threw
           /\ Detect(RouteEvent(nextId, r.event), events)
           /\ probe' = [probe EXCEPT
                           !.i = @ + 1,
                           !.parsedEvents = Append(@, [id |-> nextId, index |-> probe.i,
                                                       event |-> r.event]),
                           !.ran = Append(@, probe.i),
                           !.alerts = @ + Len(last'.alerts)]
    /\ pending' = pending \cup {nextId}
    /\ nextId' = nextId + 1
    /\ UNCHANGED <<now, events, toggles, running>>

\* after the loop: eventOps.insertBatch in one transaction, then the response; an
\* insert that raises rolls the transaction back and the route answers 500
BatchRespond ==
    /\ probe.i > Len(probe.batch)
    /\ probe.response = NoResponse
    /\ IF \E j \in DOMAIN probe.parsedEvents : InsertRaises(probe.parsedEvents[j].event)
       THEN /\ events' = events
            /\ probe' = [probe EXCEPT !.response = [status |-> 500]]
       ELSE /\ events' = events \cup pending
            /\ probe' = [probe EXCEPT
                            !.response = [status |-> 200,
                                          received |-> Len(probe.batch),
                                          processed |-> Len(probe.parsedEvents),
                                          alerts |-> probe.alerts]]
    /\ pending' = {}
    /\ UNCHANGED <<now, thresholdState, rules, alerts, nextId, toggles, last,
                   thrTrail, corTrail, running>>

NextBatch == BatchSkip \/ BatchRecord \/ BatchRespond

SpecBatch == InitBatch /\ [][NextBatch]_vars

----------------------------------------------------------------------------
(* The engine over a period longer than the maximum age of the cleanup      *)
(* timer, next to an engine whose map the timer never touches: probe holds  *)
(* the map of that second engine and the alerts its latest call returned.   *)

MaxHalfTicks == 24

\* the wall clock moves in steps of half the timer interval
ClockStepMs == SweepIntervalMs \div 2

\* window_seconds of the threshold rule
Windows == {120, 600}

TimerRules(w) == <<[ThrRule EXCEPT !.conditions.window_seconds = w], CorRule>>

\* ssh failures of one address: they match the threshold rule and both stages of the
\* correlation rule
TimerRecords ==
    {[event_type |-> "authentication", parsed_data |-> SshFailure("a"), lag |-> 0]}

InitTimer ==
    /\ now = 0
    /\ thresholdState = << >>
    /\ rules \in {[i \in DOMAIN TimerRules(w) |-> RuleRow(TimerRules(w)[i])] :
                     w \in Windows}
    /\ events = {}
    /\ alerts = {}
    /\ pending = {}
    /\ nextId = 1
    /\ toggles = 0
    /\ last = NoCall
    /\ thrTrail = [g \in Groups |-> <<>>]
    /\ corTrail = [g \in Groups |-> <<>>]
    /\ running = Idle
    /\ probe = [thresholdState |-> << >>, alerts |-> <<>>]

\* POST /api/ingest/single, and the same call made on the map without the timer
TimedIngest(record) ==
    LET event == MkEvent(nextId, now - record.lag, record)
        stored == events \cup {nextId}
        untimed == ProcessEvent(event, [thresholdState |-> probe.thresholdState,
                                        events |-> stored, alerts |-> alerts,
                                        rules |-> rules])
    IN  /\ pending = {}
        /\ nextId <= MaxEvents
        /\ events' = stored
        /\ Detect(event, stored)
        /\ probe' = [thresholdState |-> untimed.m.thresholdState,
                     alerts |-> untimed.alerts]
        /\ nextId' = nextId + 1
        /\ UNCHANGED <<now, pending, toggles, running>>

\* the wall clock advances; on every multiple of the interval the callback of the
\* cleanup timer runs
Elapse ==
    /\ now < MaxHalfTicks * ClockStepMs
    /\ now' = now + ClockStepMs
    /\ thresholdState' = IF (now + ClockStepMs) % SweepIntervalMs = 0
                         THEN SweepMap(thresholdState, now + ClockStepMs)
                         ELSE thresholdState
    /\ UNCHANGED <<rules, events, alerts, pending, nextId, toggles, last,
                   thrTrail, corTrail, running, probe>>

NextTimer ==
    \/ \E record \in TimerRecords : TimedIngest(record)
    \/ Elapse

SpecTimer == InitTimer /\ [][NextTimer]_vars

----------------------------------------------------------------------------
(* The threshold handler under different configured thresholds, fed matching *)
(* events of one group at any rate, fresh or with a stale timestamp.         *)

MaxMatching == 6

\* conditions.threshold of the rule; 0 stands for a rule that configures none
Thresholds == {0, 1, 2, 3}

ThresholdRule(n) ==
    IF n = 0
    THEN [ThrRule EXCEPT !.conditions =
              [k \in DOMAIN ThrRule.conditions \ {"threshold"} |-> ThrRule.conditions[k]]]
    ELSE [ThrRule EXCEPT !.conditions.threshold = n]

MatchingRecords ==
    {[event_type |-> "authentication", parsed_data |-> SshFailure("a"), lag |-> l] :
        l \in {0, 120000}}

InitThreshold ==
    /\ now = 0
    /\ thresholdState = << >>
    /\ rules \in {<<RuleRow(ThresholdRule(n))>> : n \in Thresholds}
    /\ events = {}
    /\ alerts = {}
    /\ pending = {}
    /\ nextId = 1
    /\ toggles = 0
    /\ last = NoCall
    /\ thrTrail = [g \in Groups |-> <<>>]
    /\ corTrail = [g \in Groups |-> <<>>]
    /\ running = Idle
    /\ probe = Idle

\* POST /api/ingest/single with a matching line
MatchingIngest(record) ==
    /\ nextId <= MaxMatching
    /\ events' = events \cup {nextId}
    /\ Detect(MkEvent(nextId, now - record.lag, record), events \cup {nextId})
    /\ nextId' = nextId + 1
    /\ UNCHANGED <<now, pending, toggles, running, probe>>

NextThreshold ==
    \/ \E record \in MatchingRecords : MatchingIngest(record)
    \/ Sweep

SpecThreshold == InitThreshold /\ [][NextThreshold]_vars

----------------------------------------------------------------------------
(* The WebSocket service. probe holds its state: wss.clients, the state of  *)
(* each socket, the subscriptions map, the keepalive flags, the latest      *)
(* broadcast, and, for the properties, what each client has asked for.      *)

Sockets == {"s1", "s2"}

CHANNELS == {"events", "alerts", "endpoints", "stats"}

\* a message of a client: channel "" stands for no channel field, list FALSE for no
\* channels array
Request(action, channel, list, channels) ==
    [action |-> action, channel |-> channel, list |-> list, channels |-> channels]

Requests ==
    {Request("subscribe", ch, FALSE, {}) : ch \in {"events", "bogus"}}
    \cup {Request("subscribe", "", TRUE, l) : l \in {{"alerts", "bogus"}, {"bogus"}}}
    \cup {Request("subscribe", "", FALSE, {}),
          Request("unsubscribe", "events", FALSE, {}),
          Request("unsubscribe", "", TRUE, {"events", "alerts"}),
          Request("subscribe_all", "", FALSE, {}),
          Request("unsubscribe_all", "", FALSE, {}),
          Request("ping", "", FALSE, {}),
          Request("hello", "", FALSE, {})}

\* handleMessage: the subscription set of the client after the message
HandleMessage(clientSubs, message) ==
    CASE message.action = "subscribe" ->
             IF message.channel # "" /\ message.channel \in CHANNELS
             THEN clientSubs \cup {message.channel}
             ELSE IF message.list THEN clientSubs \cup (message.channels \cap CHANNELS)
             ELSE clientSubs
      [] message.action = "unsubscribe" ->
             IF message.channel # "" THEN clientSubs \ {message.channel}
             ELSE IF message.list THEN clientSubs \ message.channels
             ELSE clientSubs
      [] message.action = "subscribe_all" -> clientSubs \cup CHANNELS
      [] message.action = "unsubscribe_all" -> {}
      [] OTHER -> clientSubs

\* a variant of the loop of broadcast that does not look at the state of the socket
Recipients_AnyState(ws, channel) ==
    {s \in ws.clients :
        s \in DOMAIN ws.subscriptions /\ channel \in ws.subscriptions[s]}

\* the loop of broadcast: the sockets the message is sent to
Recipients(ws, channel) ==
    {s \in ws.clients :
        /\ ws.readyState[s] = "OPEN"
        /\ s \in DOMAIN ws.subscriptions
        /\ channel \in ws.subscriptions[s]}

NoBroadcast == [channel |-> "", sent |-> {}]

\* the variables the WebSocket service does not touch
engineVars == <<now, thresholdState, rules, events, alerts, pending, nextId,
                toggles, last, thrTrail, corTrail, running>>

InitSocket ==
    /\ now = 0
    /\ thresholdState = << >>
    /\ rules = [i \in DOMAIN InstalledRules |-> RuleRow(InstalledRules[i])]
    /\ events = {}
    /\ alerts = {}
    /\ pending = {}
    /\ nextId = 1
    /\ toggles = 0
    /\ last = NoCall
    /\ thrTrail = [g \in Groups |-> <<>>]
    /\ corTrail = [g \in Groups |-> <<>>]
    /\ running = Idle
    /\ probe = [clients |-> {},
                readyState |-> [s \in Sockets |-> "CONNECTING"],
                subscriptions |-> << >>,
                isAlive |-> [s \in Sockets |-> FALSE],
                broadcast |-> NoBroadcast,
                asked |-> [s \in Sockets |-> {}],
                gone |-> {}]

\* wss.on('connection'): the socket gets an empty subscription set
Connection(s) ==
    /\ probe.readyState[s] = "CONNECTING"
    /\ probe' = [probe EXCEPT !.clients = @ \cup {s},
                              !.readyState[s] = "OPEN",
                              !.subscriptions = MapSet(@, s, {}),
                              !.isAlive[s] = TRUE,
                              !.broadcast = NoBroadcast]
    /\ UNCHANGED engineVars

\* ws.on('message') with a JSON message of the client
OnMessage(s, message) ==
    /\ probe.readyState[s] = "OPEN"
    /\ probe' = [probe EXCEPT
                    !.subscriptions =
                        IF s \in DOMAIN @
                        THEN MapSet(@, s, HandleMessage(@[s], message))
                        ELSE @,
                    !.asked[s] =
                        IF s \in probe.gone THEN @
                        ELSE CASE message.action = "subscribe" ->
                                      @ \cup (({message.channel} \cup message.channels)
                                                 \cap CHANNELS)
                               [] message.action = "subscribe_all" -> CHANNELS
                               [] message.action = "unsubscribe" ->
                                      @ \ ({message.channel} \cup message.channels)
                               [] message.action = "unsubscribe_all" -> {}
                               [] OTHER -> @,
                    !.broadcast = NoBroadcast]
    /\ UNCHANGED engineVars

\* the peer or the server starts closing the socket: it is no longer OPEN
Closing(s) ==
    /\ probe.readyState[s] = "OPEN"
    /\ probe' = [probe EXCEPT !.readyState[s] = "CLOSING",
                              !.gone = @ \cup {s},
                              !.broadcast = NoBroadcast]
    /\ UNCHANGED engineVars

\* ws.on('close')
OnClose(s) ==
    /\ probe.readyState[s] = "CLOSING"
    /\ probe' = [probe EXCEPT !.readyState[s] = "CLOSED",
                              !.clients = @ \ {s},
                              !.subscriptions = MapDelete(@, s),
                              !.broadcast = NoBroadcast]
    /\ UNCHANGED engineVars

\* ws.on('error')
OnError(s) ==
    /\ probe.readyState[s] \in {"OPEN", "CLOSING"}
    /\ probe' = [probe EXCEPT !.subscriptions = MapDelete(@, s),
                              !.gone = @ \cup {s},
                              !.broadcast = NoBroadcast]
    /\ UNCHANGED engineVars

\* ws.on('pong')
OnPong(s) ==
    /\ probe.readyState[s] = "OPEN"
    /\ ~probe.isAlive[s]
    /\ probe' = [probe EXCEPT !.isAlive[s] = TRUE, !.broadcast = NoBroadcast]
    /\ UNCHANGED engineVars

\* the heartbeat timer: a socket that did not answer the last ping is terminated
Heartbeat ==
    /\ probe.clients # {}
    /\ LET dead == {s \in probe.clients : ~probe.isAlive[s]}
       IN  probe' = [probe EXCEPT
                        !.subscriptions = [s \in DOMAIN @ \ dead |-> @[s]],
                        !.readyState = [s \in Sockets |->
                                           IF s \in dead /\ @[s] = "OPEN"
                                           THEN "CLOSING" ELSE @[s]],
                        !.isAlive = [s \in Sockets |->
                                        IF s \in probe.clients \ dead THEN FALSE ELSE @[s]],
                        !.gone = @ \cup dead,
                        !.broadcast = NoBroadcast]
    /\ UNCHANGED engineVars

\* broadcast(channel, data)
Broadcast(channel) ==
    /\ probe' = [probe EXCEPT
                    !.broadcast = [channel |-> channel,
                                   sent |-> Recipients(probe, channel)]]
    /\ UNCHANGED engineVars

NextSocket ==
    \/ \E s \in Sockets : Connection(s)
    \/ \E s \in Sockets, message \in Requests : OnMessage(s, message)
    \/ \E s \in Sockets : Closing(s)
    \/ \E s \in Sockets : OnClose(s)
    \/ \E s \in Sockets : OnError(s)
    \/ \E s \in Sockets : OnPong(s)
    \/ Heartbeat
    \/ \E channel \in {"events", "alerts", "bogus"} : Broadcast(channel)

SpecSocket == InitSocket /\ [][NextSocket]_vars

----------------------------------------------------------------------------
(* The Linux agent on one tailed log file. probe holds the file (its lines  *)
(* are numbered, the size is the number of lines), filePositions of the     *)
(* file, the readNewLines calls in progress, eventQueue, the sendBatch      *)
(* requests in flight and what the server received; queued and atStop are   *)
(* history kept for the properties.                                         *)

MaxLines == 3
MaxReads == 2
MaxRequests == 1

\* config.batch_size
BatchSize == 2

Take(s, n) == SubSeq(s, 1, IF Len(s) < n THEN Len(s) ELSE n)
Drop(s, n) == SubSeq(s, (IF Len(s) < n THEN Len(s) ELSE n) + 1, Len(s))
Remove(s, i) == SubSeq(s, 1, i - 1) \o SubSeq(s, i + 1, Len(s))

InitAgent ==
    /\ now = 0
    /\ thresholdState = << >>
    /\ rules = [i \in DOMAIN InstalledRules |-> RuleRow(InstalledRules[i])]
    /\ events = {}
    /\ alerts = {}
    /\ pending = {}
    /\ nextId = 1
    /\ toggles = 0
    /\ last = NoCall
    /\ thrTrail = [g \in Groups |-> <<>>]
    /\ corTrail = [g \in Groups |-> <<>>]
    /\ running = Idle
    /\ probe = [size |-> 0, filePosition |-> 0, reads |-> <<>>, eventQueue |-> <<>>,
                requests |-> <<>>, received |-> {}, state |-> "running",
                queued |-> <<>>, atStop |-> <<>>]

\* a line is appended to the log file
AppendLine ==
    /\ probe.state = "running"
    /\ probe.size < MaxLines
    /\ probe' = [probe EXCEPT !.size = @ + 1]
    /\ UNCHANGED engineVars

\* the fs.watch callback with a change notification: readNewLines up to its first
\* await, with the position and the size it reads then
Change ==
    /\ probe.state = "running"
    /\ Len(probe.reads) < MaxReads
    /\ probe.size > probe.filePosition
    /\ probe' = [probe EXCEPT
                    !.reads = Append(@, [next |-> probe.filePosition + 1,
                                         end |-> probe.size])]
    /\ UNCHANGED engineVars

\* one iteration of the for await loop of a readNewLines call: queueEvent(line)
ReadLine(i) ==
    /\ probe.state # "exited"
    /\ i \in DOMAIN probe.reads
    /\ probe.reads[i].next <= probe.reads[i].end
    /\ probe' = [probe EXCEPT !.eventQueue = Append(@, probe.reads[i].next),
                              !.queued = Append(@, probe.reads[i].next),
                              !.reads[i].next = @ + 1]
    /\ UNCHANGED engineVars

\* the loop of a readNewLines call is over: the position is set to the size read at
\* the start of the call
ReadEnd(i) ==
    /\ probe.state # "exited"
    /\ i \in DOMAIN probe.reads
    /\ probe.reads[i].next > probe.reads[i].end
    /\ probe' = [probe EXCEPT !.filePosition = probe.reads[i].end,
                              !.reads = Remove(@, i)]
    /\ UNCHANGED engineVars

\* sendBatch up to its await: the first batch_size events leave the queue and the
\* request is made
SendBatch(ws, flush) ==
    [ws EXCEPT !.eventQueue = Drop(@, BatchSize),
               !.requests = Append(@, [events |-> Take(ws.eventQueue, BatchSize),
                                       flush |-> flush])]

\* the batch timer fires
BatchTick ==
    /\ probe.state = "running"
    /\ probe.eventQueue # <<>>
    /\ Len(probe.requests) < MaxRequests
    /\ probe' = SendBatch(probe, FALSE)
    /\ UNCHANGED engineVars

\* a request of sendBatch completes: on failure its events go back to the front of
\* the queue; after the request made by stop the process exits
Response(i, ok) ==
    /\ probe.state # "exited"
    /\ i \in DOMAIN probe.requests
    /\ LET request == probe.requests[i]
       IN  probe' = [probe EXCEPT
                        !.received = IF ok
                                     THEN @ \cup {request.events[j] :
                                                     j \in DOMAIN request.events}
                                     ELSE @,
                        !.eventQueue = IF ok THEN @ ELSE request.events \o @,
                        !.requests = Remove(@, i),
                        !.state = IF request.flush THEN "exited" ELSE @]
    /\ UNCHANGED engineVars

\* SIGINT or SIGTERM: stop()
Stop ==
    /\ probe.state = "running"
    /\ probe' = IF probe.eventQueue = <<>>
                THEN [probe EXCEPT !.state = "exited"]
                ELSE [SendBatch(probe, TRUE) EXCEPT !.state = "flushing",
                                                    !.atStop = probe.eventQueue]
    /\ UNCHANGED engineVars

NextAgent ==
    \/ AppendLine
    \/ Change
    \/ \E i \in 1..MaxReads : ReadLine(i)
    \/ \E i \in 1..MaxReads : ReadEnd(i)
    \/ BatchTick
    \/ \E i \in 1..(MaxRequests + 1), ok \in BOOLEAN : Response(i, ok)
    \/ Stop

SpecAgent == InitAgent /\ [][NextAgent]_vars

----------------------------------------------------------------------------
(* Vocabulary of the properties *)

\* the step is a processEvent call
Call == last' # last

ThrKey(g) == StateKey(ThrRule, Str(g))
CorKey(g) == StateKey(CorRule, Str(g))

MatchesThr(event) == MatchesCondition(event, ThrRule.conditions)
MatchesStage0(event) == MatchesCondition(event, CorRule.conditions.sequence[1].match)
MatchesStage1(event) == MatchesCondition(event, CorRule.conditions.sequence[2].match)

\* the latest ThrNeeded matching events of group g
FullTrail(g) == Len(thrTrail[g]) = ThrNeeded

----------------------------------------------------------------------------
(* C1 *)

\* C1 (as claimed): starting with no state for the group, when ThrNeeded matching
\* events of one group are processed within the window, their timestamps within the
\* window of the wall clock, no alert is returned for the first ThrNeeded - 1 and one
\* alert is returned on the last.
C1_AlertOnNth ==
    \A g \in Groups :
        LET tr == thrTrail[g]
        IN  (/\ FullTrail(g)
             /\ tr[1].fresh
             /\ tr[ThrNeeded].at - tr[1].at <= ThrWindowMs
             /\ \A i \in DOMAIN tr : tr[ThrNeeded].at - tr[i].ts < ThrWindowMs)
            => /\ \A i \in 1..(ThrNeeded - 1) : ~tr[i].alert
               /\ tr[ThrNeeded].alert

\* C1 on the calls in which creating the alert did not raise
C1_AlertOnNthCreated ==
    \A g \in Groups :
        LET tr == thrTrail[g]
        IN  (/\ FullTrail(g)
             /\ tr[1].fresh
             /\ \A i \in DOMAIN tr : ~tr[i].threw
             /\ tr[ThrNeeded].at - tr[1].at <= ThrWindowMs
             /\ \A i \in DOMAIN tr : tr[ThrNeeded].at - tr[i].ts < ThrWindowMs)
            => /\ \A i \in 1..(ThrNeeded - 1) : ~tr[i].alert
               /\ tr[ThrNeeded].alert

----------------------------------------------------------------------------
(* C2 *)

\* C2: right after the threshold rule returned an alert for a group, the group's
\* state is the empty window; and an alert is returned only when ThrNeeded matching
\* events of the group were processed since the previous alert, the alerting one
\* included, so never on two matching events in a row (ThrNeeded >= 2).
C2_ResetAfterAlert ==
    /\ (last # NoCall /\ AlertedBy(last, "thr") /\ now = last.at)
           => /\ ThrKey(GroupOf(last.event)) \in DOMAIN thresholdState
              /\ thresholdState[ThrKey(GroupOf(last.event))] = EmptyState(last.at)
    /\ \A g \in Groups :
           LET tr == thrTrail[g]
           IN  (tr # <<>> /\ tr[Len(tr)].alert)
                   => /\ FullTrail(g)
                      /\ \A i \in 1..(ThrNeeded - 1) : ~tr[i].alert

\* C2 witness: an alert for a group, and the next matching event of the group
\* returned none
C2_Witness ==
    \E g \in Groups :
        /\ FullTrail(g)
        /\ thrTrail[g][ThrNeeded - 1].alert
        /\ ~thrTrail[g][ThrNeeded].alert
        /\ thresholdState[ThrKey(g)].count = 1

----------------------------------------------------------------------------
(* C3 *)

\* C3 (as claimed, on events whose timestamp is the wall clock and with no alert
\* creation raising): when ThrNeeded matching events of a group are processed within
\* a span shorter than the window, an alert is returned for one of them.
C3_SlidingWindow ==
    \A g \in Groups :
        LET tr == thrTrail[g]
        IN  (/\ FullTrail(g)
             /\ tr[ThrNeeded].at - tr[1].at < ThrWindowMs
             /\ \A i \in DOMAIN tr : ~tr[i].threw /\ tr[i].ts = tr[i].at)
            => \E i \in DOMAIN tr : tr[i].alert

----------------------------------------------------------------------------
(* C4 *)

\* the window of group g holds fewer than ThrNeeded events and started more than the
\* rule's window ago
Expired(g) ==
    /\ ThrKey(g) \in DOMAIN thresholdState
    /\ thresholdState[ThrKey(g)].count < ThrNeeded
    /\ now - thresholdState[ThrKey(g)].window_start > ThrWindowMs

\* processEvent handles a matching event of group g with the threshold rule enabled
ThrCall(g) ==
    /\ Call
    /\ "thr" \in last'.enabled
    /\ MatchesThr(last'.event)
    /\ GroupOf(last'.event) = g

\* C4 (as claimed): a matching event processed after the window expired leaves the
\* state with count 1 in a window starting at that event, and returns no alert.
C4_ExpiryCountOne ==
    [][\A g \in Groups :
          (Expired(g) /\ ThrCall(g))
              => /\ thresholdState'[ThrKey(g)] =
                        [count |-> 1, window_start |-> now,
                         events |-> <<Entry(last'.event)>>]
                 /\ ~AlertedBy(last', "thr")]_vars

\* C4 (amended): the stale count is discarded and the window restarts at that event
\* with no alert; the event itself is counted (count 1) when its own timestamp is
\* less than the window before the wall clock, and is pruned (count 0) otherwise.
C4_ExpiryRestart ==
    [][\A g \in Groups :
          (Expired(g) /\ ThrCall(g))
              => /\ thresholdState'[ThrKey(g)] =
                        IF now - GetTime(last'.event.f.timestamp) < ThrWindowMs
                        THEN [count |-> 1, window_start |-> now,
                              events |-> <<Entry(last'.event)>>]
                        ELSE EmptyState(now)
                 /\ ~AlertedBy(last', "thr")]_vars

\* C4 witness: a matching event arrived after the group's window had expired and
\* opened a new window in which it is the one counted event
C4_Witness ==
    \E g \in Groups :
        /\ FullTrail(g)
        /\ ~thrTrail[g][ThrNeeded].fresh
        /\ thrTrail[g][ThrNeeded].at - thrTrail[g][ThrNeeded - 1].at > ThrWindowMs
        /\ last # NoCall /\ GroupOf(last.event) = g /\ MatchesThr(last.event)
        /\ thresholdState[ThrKey(g)].count = 1
        /\ thresholdState[ThrKey(g)].window_start = now

----------------------------------------------------------------------------
(* C5 *)

\* the alerts of rule id returned by a call
AlertsOf(call, id) == {i \in DOMAIN call.alerts : call.alerts[i].rule_id = id}

\* processEvent handles an event of group g with the correlation rule enabled
CorCall(g) ==
    /\ Call
    /\ "cor" \in last'.enabled
    /\ GroupOf(last'.event) = g

\* C5 (as claimed): once CorNeeded stage-0 events of a group were processed, their
\* timestamps all within the window of the wall clock, the next stage-1 event of the
\* group returns exactly one alert of the correlation rule.
C5_AlertOnSuccess ==
    [][\A g \in Groups :
          (/\ CorCall(g)
           /\ MatchesStage1(last'.event)
           /\ Len(corTrail[g]) = CorNeeded
           /\ \A i \in DOMAIN corTrail[g] : now - corTrail[g][i] < CorWindowMs)
              => Cardinality(AlertsOf(last', "cor")) = 1]_vars

----------------------------------------------------------------------------
(* C6 *)

\* C6: when the correlation rule returns an alert for a group, the group's state is
\* deleted, and CorNeeded stage-0 events of the group were processed since the rule's
\* previous alert for it; so a stage-1 event that follows an alert with no stage-0
\* event in between returns no alert.
C6_ClearedOnAlert ==
    [][\A g \in Groups :
          (CorCall(g) /\ AlertedBy(last', "cor"))
              => /\ CorKey(g) \notin DOMAIN thresholdState'
                 /\ Len(corTrail[g]) = CorNeeded
                 /\ corTrail'[g] = <<>>]_vars

\* C6 witness: the rule alerted for a group, and the last call handled a stage-1
\* event of that group with no stage-0 event since, returning no alert
C6_Witness ==
    \E g \in Groups :
        /\ last # NoCall
        /\ GroupOf(last.event) = g
        /\ "cor" \in last.enabled
        /\ MatchesStage1(last.event)
        /\ ~MatchesStage0(last.event)
        /\ ~AlertedBy(last, "cor")
        /\ last.threw = {"bad"}
        /\ corTrail[g] = <<>>
        /\ \E a \in alerts : a.rule_id = "cor"
        /\ \A h \in Groups \ {g} : thrTrail[h] = <<>>

----------------------------------------------------------------------------
(* C7 *)

\* the accumulator of group g after one more stage-0 event
Grown(g, event) ==
    LET state == IF CorKey(g) \in DOMAIN thresholdState
                 THEN thresholdState[CorKey(g)]
                 ELSE EmptyState(now)
    IN  [state EXCEPT !.count = @ + 1, !.events = Append(@, Entry(event))]

\* the stage-1 branch ran to createAlert in the call: an alert of the rule was
\* returned, or its creation raised
CorFired(call) == AlertedBy(call, "cor") \/ "cor" \in call.threw

\* C7 (as claimed): every event that matches the stage-0 predicate is appended to the
\* accumulator of its group, whatever the stage-1 check did.
C7_AlwaysAppended ==
    [][\A g \in Groups :
          (CorCall(g) /\ MatchesStage0(last'.event))
              => /\ CorKey(g) \in DOMAIN thresholdState'
                 /\ thresholdState'[CorKey(g)] = Grown(g, last'.event)]_vars

\* C7 (amended): an event that matches the stage-0 predicate is appended to the
\* accumulator of its group unless the stage-1 branch created the alert on it; then
\* the handler returns there, the event is not appended and the group has no state.
C7_AppendedUnlessFired ==
    [][\A g \in Groups :
          (CorCall(g) /\ MatchesStage0(last'.event))
              => IF CorFired(last')
                 THEN CorKey(g) \notin DOMAIN thresholdState'
                 ELSE /\ CorKey(g) \in DOMAIN thresholdState'
                      /\ thresholdState'[CorKey(g)] = Grown(g, last'.event)]_vars

\* C7 witness: the last call returned a correlation alert on an event that matches
\* both stages, and the group is left without state
C7_Witness ==
    /\ last # NoCall
    /\ MatchesStage0(last.event)
    /\ MatchesStage1(last.event)
    /\ AlertedBy(last, "cor")
    /\ now = last.at
    /\ CorKey(GroupOf(last.event)) \notin DOMAIN thresholdState

----------------------------------------------------------------------------
(* C8 *)

\* the keys a rule can write in the window-state map
OwnKeys(id) ==
    {id \o ":" \o ToStr(v) : v \in {Str(g) : g \in Groups} \cup {Undefined, Str("global")}}

SameOn(keys, f, g) ==
    \A k \in keys : /\ (k \in DOMAIN f) <=> (k \in DOMAIN g)
                    /\ k \in DOMAIN f => f[k] = g[k]

Without(s, id) == SelectSeq(s, LAMBDA x : x # id)

AllKeys == UNION {OwnKeys(id) : id \in RuleIds}

\* C8: every enabled rule is evaluated in every call, and when a rule's handler
\* raised, the alerts returned, the alerts and rules tables and the state of the other
\* rules are what the call yields with that rule left out.
C8_FailureIsolated ==
    [][Call =>
          /\ last'.evaluated = [i \in DOMAIN GetEnabled(rules) |-> GetEnabled(rules)[i].id]
          /\ DOMAIN thresholdState' \subseteq AllKeys
          /\ \A id \in last'.threw :
                LET rest == SelectSeq(GetEnabled(rules), LAMBDA r : r.id # id)
                    res == ProcessEventWith(last'.event, rest,
                               [thresholdState |-> thresholdState, events |-> events',
                                alerts |-> alerts, rules |-> rules])
                IN  /\ res.alerts = last'.alerts
                    /\ res.threw = last'.threw \ {id}
                    /\ res.evaluated = Without(last'.evaluated, id)
                    /\ res.m.alerts = alerts'
                    /\ res.m.rules = rules'
                    /\ SameOn(AllKeys \ OwnKeys(id), res.m.thresholdState,
                              thresholdState')]_vars

\* C8 witness: in the last call the handler of the malformed rule raised, and the
\* rules after it were evaluated and returned their alerts
C8_Witness ==
    /\ last # NoCall
    /\ "bad" \in last.threw
    /\ last.evaluated = <<"thr", "bad", "cor", "sig">>
    /\ \/ AlertedBy(last, "cor")
       \/ AlertedBy(last, "sig")

----------------------------------------------------------------------------
(* C9 *)

\* C9 (as claimed): with the signature rule enabled, a call returns an alert of the
\* rule exactly when the event matches the rule's conditions, whatever was processed
\* before, and the rule's handler leaves the window-state map as it was.
C9_AlertIffMatch ==
    [][(Call /\ "sig" \in last'.enabled) =>
          /\ AlertedBy(last', "sig") <=> MatchesCondition(last'.event, SigRule.conditions)
          /\ ProcessSignatureRule(last'.event, SigRule,
                 [thresholdState |-> thresholdState, events |-> events',
                  alerts |-> alerts, rules |-> rules]).m.thresholdState
                 = thresholdState]_vars

----------------------------------------------------------------------------
(* C10 *)

MatchCount(rows, id) == {rows[i].match_count : i \in {j \in DOMAIN rows : rows[j].id = id}}

\* C10: in every call, the rules evaluated are the rules enabled in the rules table
\* when the call starts; a rule that is disabled then returns no alert, and its state
\* and match count are left as they were.
C10_EnabledReadPerCall ==
    [][Call =>
          \A id \in RuleIds :
              IF RuleEnabled(rules, id)
              THEN \E i \in DOMAIN last'.evaluated : last'.evaluated[i] = id
              ELSE /\ \A i \in DOMAIN last'.evaluated : last'.evaluated[i] # id
                   /\ ~AlertedBy(last', id)
                   /\ id \notin last'.threw
                   /\ SameOn(OwnKeys(id), thresholdState, thresholdState')
                   /\ MatchCount(rules', id) = MatchCount(rules, id)
                   /\ \A a \in alerts' \ alerts : a.rule_id # id]_vars

\* C10 witness: the threshold rule was disabled while a matching event of a group was
\* processed (the correlation rule recorded it, the threshold rule did not), then
\* enabled, and the last call evaluated it on the group's next matching event
C10_Witness ==
    \E g \in Groups :
        /\ toggles = 2
        /\ last # NoCall
        /\ "thr" \in last.enabled
        /\ MatchesThr(last.event)
        /\ GroupOf(last.event) = g
        /\ Len(corTrail[g]) = 2
        /\ Len(thrTrail[g]) = 1
        /\ ThrKey(g) \in DOMAIN thresholdState
        /\ thresholdState[ThrKey(g)].count = 1

----------------------------------------------------------------------------
(* C11 *)

RowOf(rows, id) == rows[CHOOSE i \in DOMAIN rows : rows[i].id = id]

\* C11: a call returns at most one alert per rule, only for rules enabled when it
\* starts; each returned alert is open, names the event processed and its rule, and
\* carries the rule's severity and name; the alerts added to the alerts table are the
\* alerts returned, and a rule's match count grows by the number of its alerts.
C11_OneAlertPerMatch ==
    [][Call =>
          /\ \A id \in RuleIds :
                /\ Cardinality(AlertsOf(last', id)) <= 1
                /\ AlertedBy(last', id) => id \in last'.enabled
                /\ MatchCount(rules', id) =
                       {n + Cardinality(AlertsOf(last', id)) : n \in MatchCount(rules, id)}
          /\ \A i \in DOMAIN last'.alerts :
                LET alert == last'.alerts[i]
                IN  /\ alert.status = "open"
                    /\ alert.event_id = last'.event.f.id.v
                    /\ alert.rule_id \in RuleIds
                    /\ alert.severity = RowOf(rules, alert.rule_id).severity
                    /\ alert.title = RowOf(rules, alert.rule_id).name
          /\ alerts' \ alerts = {last'.alerts[i] : i \in DOMAIN last'.alerts}
          /\ alerts \subseteq alerts']_vars

\* C11 witness: one call in which two rules matched and each returned its one alert
C11_Witness ==
    /\ last # NoCall
    /\ Len(last.alerts) = 2
    /\ AlertedBy(last, "thr")
    /\ AlertedBy(last, "cor")

----------------------------------------------------------------------------
(* C12 *)

\* the tables and the map as the engine finds them when the step's call starts
AtCall == [thresholdState |-> thresholdState, events |-> events',
           alerts |-> alerts, rules |-> rules]

\* C12 (as claimed): when processEvent returns, the alerts table and the match counts
\* are as they were when it was called; the alerts it returns are stored afterwards.
C12_NoStoreInEngine ==
    [][Call =>
          LET res == ProcessEvent(last'.event, AtCall)
          IN  /\ res.m.alerts = alerts
              /\ res.m.rules = rules]_vars

----------------------------------------------------------------------------
(* C13 *)

\* C13: from the entry of a processEvent call to its return nothing else runs: the
\* clock, the events table and the batch in progress stay as they are, every step is
\* the next iteration of the same call's rule loop or its return, and at the return
\* the map, the tables and the alerts returned are what evaluating all the enabled
\* rules in order on the state found at entry gives.
C13_RunToCompletion ==
    [][running # Idle =>
          /\ now' = now /\ events' = events /\ pending' = pending /\ nextId' = nextId
          /\ IF running' # Idle
             THEN /\ running'.event = running.event
                  /\ running'.before = running.before
                  /\ running'.i = running.i + 1
             ELSE LET res == ProcessEventWith(running.event, running.enabled,
                                 [thresholdState |-> running.before.thresholdState,
                                  events |-> events,
                                  alerts |-> running.before.alerts,
                                  rules |-> running.before.rules])
                  IN  /\ thresholdState' = res.m.thresholdState
                      /\ alerts' = res.m.alerts
                      /\ rules' = res.m.rules
                      /\ last'.event = running.event
                      /\ last'.alerts = res.alerts
                      /\ last'.evaluated =
                             [i \in DOMAIN running.enabled |-> running.enabled[i].id]]_vars

\* C13 witness: a call is in the middle of its rule loop, after the timer has fired at
\* least once, and has already changed the window state it found at entry
C13_Witness ==
    /\ running # Idle
    /\ running.i > 1
    /\ running.i <= Len(running.enabled)
    /\ now > 0
    /\ thresholdState # running.before.thresholdState
    /\ running.before.thresholdState # << >>

----------------------------------------------------------------------------
(* C14 *)

CheckKeys == {"any", "all", "equals", "contains", "contains_any", "matches", "not",
              "additional"}

\* the node with only its field and its check k
Only(condition, k) ==
    [x \in DOMAIN condition \cap {"field", k} |-> condition[x]]

ChecksOf(condition) ==
    IF condition = Null THEN {} ELSE DOMAIN condition \cap CheckKeys

\* C14 (as claimed): a node matches an event exactly when every check it carries,
\* taken alone on the node's field, passes.
C14_ChecksAnded ==
    (probe # Idle /\ probe.done /\ probe.condition # Null) =>
        (probe.result <=>
            \A k \in ChecksOf(probe.condition) :
                MatchesCondition(probe.event, Only(probe.condition, k)))

----------------------------------------------------------------------------
(* C15 *)

\* what the three nested leaves say of an event, read off the events: a is the text
\* "Ab" on EvAb only, b.c holds a "b" or "B" on EvBo only, and the third leaf's
\* pattern does not compile
Holds(part, event) ==
    \/ part = LeafEq /\ event = EvAb
    \/ part = LeafHas /\ event = EvBo

Matched == probe # Idle /\ probe.done /\ probe.condition # Null

\* C15: a node {all: list} matches exactly when every member matches, {any: list}
\* exactly when at least one member matches, and {not: c} exactly when c does not
\* match, also when the field c tests is undefined on the event.
C15_Composition ==
    Matched =>
        LET c == probe.condition
            e == probe.event
        IN  /\ DOMAIN c = {"all"} =>
                   (probe.result <=> \A i \in DOMAIN c.all : Holds(c.all[i], e))
            /\ DOMAIN c = {"any"} =>
                   (probe.result <=> \E i \in DOMAIN c.any : Holds(c.any[i], e))
            /\ DOMAIN c = {"not"} => (probe.result <=> ~Holds(c.not, e))

\* C15 witness: {not: {field: a, equals: "Ab"}} matched an event that has no field a
C15_Witness ==
    /\ Matched
    /\ DOMAIN probe.condition = {"not"}
    /\ probe.condition.not = LeafEq
    /\ probe.event = EvBo
    /\ probe.result

----------------------------------------------------------------------------
(* C16 *)

\* the node carries a pattern that does not compile, on itself or under not or
\* additional
RECURSIVE CarriesBadPattern(_)
CarriesBadPattern(condition) ==
    /\ condition # Null
    /\ \/ Has(condition, "matches") /\ RegExpThrows(JsString(condition.matches))
       \/ Truthy(condition, "not") /\ CarriesBadPattern(condition.not)
       \/ Truthy(condition, "additional") /\ CarriesBadPattern(condition.additional)

\* C16 (as claimed): a node that carries a pattern that does not compile, directly or
\* under not or additional, matches no event.
C16_BadPatternFailsClosed ==
    (Matched /\ CarriesBadPattern(probe.condition)) => ~probe.result

----------------------------------------------------------------------------
(* C17 *)

\* a segment of the path is missing or null on the event
Absent(event, path) ==
    IF path = PathA
    THEN "a" \notin DOMAIN event.f \/ event.f.a = Null
    ELSE \/ "b" \notin DOMAIN event.f
         \/ event.f.b.t # "object"
         \/ "c" \notin DOMAIN event.f.b.f
         \/ event.f.b.f.c = Null

\* the last segment is there and is null
LastIsNull(event, path) ==
    IF path = PathA
    THEN "a" \in DOMAIN event.f /\ event.f.a = Null
    ELSE /\ "b" \in DOMAIN event.f
         /\ event.f.b.t = "object"
         /\ "c" \in DOMAIN event.f.b.f
         /\ event.f.b.f.c = Null

\* the probe is a node with a field and one check
OnLeaf == Matched /\ probe.condition \in Leaves

\* C17 (as claimed): when a segment of the path is missing or null, the lookup gives
\* undefined and the equals, contains, contains_any or matches check is a non-match.
C17_AbsentUndefined ==
    (OnLeaf /\ Absent(probe.event, probe.condition.field)) =>
        /\ probe.value = Undefined
        /\ ~probe.result

\* C17 (amended): when a segment of the path is missing or null, the lookup gives
\* undefined, or null when it is the last segment that is null; a contains,
\* contains_any or matches check is then a non-match, and so is an equals check
\* unless it is equals: null against a last segment that is null.
C17_AbsentNoMatch ==
    (OnLeaf /\ Absent(probe.event, probe.condition.field)) =>
        LET c == probe.condition
            lastNull == LastIsNull(probe.event, c.field)
        IN  /\ probe.value = IF lastNull THEN Null ELSE Undefined
            /\ probe.result <=> (lastNull /\ Has(c, "equals") /\ c.equals = Null)

\* C17 witness: a check on b.c of an event whose b is a text, not an object
C17_Witness ==
    /\ OnLeaf
    /\ probe.event = EvZero
    /\ probe.condition.field = PathBC
    /\ Has(probe.condition, "matches")
    /\ probe.value = Undefined
    /\ ~probe.result

----------------------------------------------------------------------------
(* Parsers *)

\* a parser was called on the probe's record and has come back
ParserCalled == probe # Idle /\ probe.done

\* C18: no parser throws, whatever the input record: a record that is not a string,
\* a line with an unknown month name or an impossible ISO date, and JSON text that
\* decodes to null all yield an Event.
C18_NeverThrows ==
    ParserCalled => ~probe.result.threw

\* the record is a string that the called parser recognises nothing in: neither
\* syslog expression matches it, or it is not JSON text
TotalFailure ==
    /\ ParserCalled
    /\ ~probe.result.threw
    /\ IF probe.parser = "windows"
       THEN \/ probe.raw.kind \in {"bsd", "iso"}
            \/ probe.raw.kind = "text" /\ JsonParse(probe.raw.chars).threw
       ELSE probe.raw.kind = "text"

\* C19: on total parse failure every parser returns a degraded Event with event_type
\* "system", severity "info", the raw text as its description, and parsed_data.format
\* "non-standard" ("non-json" for the Windows parser).
C19_DegradedEvent ==
    TotalFailure =>
        LET e == probe.result.event
        IN  /\ e.event_type = Str("system")
            /\ e.severity = Str("info")
            /\ e.description = Str(RawText(probe.raw))
            /\ e.format = Str(IF probe.parser = "windows" THEN "non-json"
                              ELSE "non-standard")

\* a field that holds a value
Present(value) == value # Undefined /\ value # Null

\* C20: every Event a parser returns has timestamp, source, event_type, severity and
\* description present, its source one of syslog, auth, windows and its severity one
\* of info, warning, critical.
C20_RequiredFields ==
    (ParserCalled /\ ~probe.result.threw) =>
        LET e == probe.result.event
        IN  /\ \A k \in {"timestamp", "source", "event_type", "severity", "description"} :
                   Present(e[k])
            /\ e.source \in {Str("syslog"), Str("auth"), Str("windows")}
            /\ e.severity \in {Str("info"), Str("warning"), Str("critical")}

\* C21: for every priority p from 0 to 191 given in a BSD line, the parsed facility
\* is p div 8 and the syslog severity is p mod 8, and the event severity is critical
\* when p mod 8 <= 2, warning when p mod 8 is 3 or 4, and info otherwise.
C21_PriorityDecoded ==
    (/\ ParserCalled
     /\ probe.parser = "syslog"
     /\ probe.raw.kind = "bsd"
     /\ probe.raw.priority \in 0..MaxPriority
     /\ ~probe.result.threw) =>
        LET p == probe.raw.priority
            e == probe.result.event
        IN  /\ e.facility = Num(p \div 8)
            /\ e.syslog_severity = Num(p % 8)
            /\ e.severity = Str(IF p % 8 <= 2 THEN "critical"
                                ELSE IF p % 8 <= 4 THEN "warning"
                                ELSE "info")

\* a BSD timestamp was resolved
Resolved == probe # Idle /\ probe.done

\* the day the stamp names exists in the given year
DayExists(stamp, year) == stamp.day <= DaysInMonth(year, MonthIndex[stamp.month])

\* C22: a BSD timestamp is resolved with the current year, or with the previous year
\* when the current-year date would be later than the clock; the result is never in
\* the future, and it is the stamp's month, day and time of day whenever the resolved
\* year has that day.
C22_YearResolved ==
    Resolved =>
        LET year == Fields(probe.clock).year
            st == probe.stamp
            thisYear == DateValue(year, MonthIndex[st.month], st.day, st.half)
            r == Fields(probe.result)
        IN  /\ r.year = (IF thisYear > probe.clock THEN year - 1 ELSE year)
            /\ probe.result <= probe.clock
            /\ DayExists(st, r.year) =>
                   /\ r.month = MonthIndex[st.month]
                   /\ r.day = st.day
                   /\ r.half = st.half

\* the auth parser was called on a line the syslog parser takes apart
AuthParsed ==
    /\ ParserCalled
    /\ probe.parser = "auth"
    /\ probe.raw.kind \in {"bsd", "iso"}
    /\ ~probe.result.threw

\* the patterns that match the probe's message, by their place in the order
MatchingPatterns ==
    {i \in DOMAIN PatternOrder : PatternOrder[i] \in probe.raw.message.patterns}

\* the line of the probe with a message that only the given pattern matches
OnlyPattern(pattern) ==
    [probe.raw EXCEPT !.message.patterns = {pattern}]

\* the first matching pattern alone decides the result
C23_FirstMatchWins ==
    (AuthParsed /\ MatchingPatterns # {}) =>
        LET first == CHOOSE i \in MatchingPatterns : \A j \in MatchingPatterns : i <= j
            alone == AuthParse(OnlyPattern(PatternOrder[first]), probe.metadata).event
        IN  \A k \in {"event_type", "severity", "user", "description", "auth_type",
                      "auth_result"} :
                probe.result.event[k] = alone[k]

\* C23: the auth parser tries its patterns in a fixed order and the first matching
\* pattern alone sets event_type, severity, user and parsed_data; when no pattern
\* matches, the result keeps the event_type, severity and description the syslog
\* parser derived for the line.
C23_FirstMatchOrBase ==
    /\ C23_FirstMatchWins
    /\ (AuthParsed /\ MatchingPatterns = {}) =>
           LET base == SyslogParse(probe.raw, probe.metadata).event
               e == probe.result.event
           IN  /\ e.event_type = base.event_type
               /\ e.severity = base.severity
               /\ e.description = base.description

----------------------------------------------------------------------------
(* C24 *)

\* the installed rules that keep window state
StateRules == {ThrRule, CorRule}

\* the group value an event has for a rule
GroupFor(event, rule) == GroupValue(event, rule.conditions)

\* C24 (as claimed): two (rule, group value) pairs use the same state entry only
\* when the rule ids are equal and the group values are equal, so a call leaves the
\* entry of every pair other than the event's own as it was.
C24_NoSharedState ==
    [][Call =>
          \A r \in StateRules : \A v \in GroupValues :
              v # GroupFor(last'.event, r) =>
                  SameOn({StateKey(r, v)}, thresholdState, thresholdState')]_vars

\* C24: two pairs use the same state entry exactly when the rule ids are equal and
\* the group values have the same text in the key; a call leaves every other pair's
\* entry as it was, and what it does to a pair's entry and whether it returns an
\* alert of the rule is what the rule's handler does with that entry alone.
C24_KeyedState ==
    [][Call =>
          \A r \in StateRules : \A v \in GroupValues :
              LET own == StateKey(r, v)
                  kept == [k \in DOMAIN thresholdState \cap {own} |-> thresholdState[k]]
                  alone == Dispatch(last'.event, r,
                                    [AtCall EXCEPT !.thresholdState = kept])
              IN  IF r.id \in last'.enabled
                     /\ ToStr(v) = ToStr(GroupFor(last'.event, r))
                  THEN /\ SameOn({own}, alone.m.thresholdState, thresholdState')
                       /\ AlertedBy(last', r.id) <=> (~alone.threw /\ alone.alert # Null)
                  ELSE SameOn({own}, thresholdState, thresholdState')]_vars

\* a line from the address "undefined" fired the correlation rule while the threshold
\* rule held a window for address a
C24_Witness ==
    /\ last # NoCall
    /\ GroupFor(last.event, CorRule) = Str("undefined")
    /\ AlertedBy(last, "cor")
    /\ StateKey(ThrRule, Str("a")) \in DOMAIN thresholdState

----------------------------------------------------------------------------
(* C25 *)

\* the event's own timestamp is a window or more before the wall clock
Replayed(event) == now - GetTime(event.f.timestamp) >= ThrWindowMs

\* C25: after the threshold rule processed a matching event at time now, every entry
\* left in the group's event list has a timestamp less than the window before now; a
\* matching event whose own timestamp is a window or more in the past is not counted
\* and returns no alert.
C25_WallClockWindow ==
    [][\A g \in Groups :
          ThrCall(g) =>
              /\ ThrKey(g) \in DOMAIN thresholdState'
              /\ LET kept == thresholdState'[ThrKey(g)].events
                 IN  /\ \A i \in DOMAIN kept :
                            now - GetTime(kept[i].timestamp) < ThrWindowMs
                     /\ Replayed(last'.event) =>
                            /\ ~AlertedBy(last', "thr")
                            /\ \A i \in DOMAIN kept : kept[i] # Entry(last'.event)]_vars

\* a replayed failure was processed after a fresh one of the same address: the fresh
\* one alone is in the window
C25_Witness ==
    /\ last # NoCall
    /\ MatchesThr(last.event)
    /\ last.at - GetTime(last.event.f.timestamp) >= ThrWindowMs
    /\ ThrKey("a") \in DOMAIN thresholdState
    /\ Len(thresholdState[ThrKey("a")].events) = 1
    /\ thresholdState[ThrKey("a")].events[1].id # last.event.f.id.v

----------------------------------------------------------------------------
(* C26 *)

\* the events accumulated for group g by the correlation rule
Accumulated(map, g) == IF CorKey(g) \in DOMAIN map THEN map[CorKey(g)].events ELSE <<>>

\* C26: a correlation alert is returned only for an event that matches the stage-1
\* predicate, and only when the group's accumulator holds at least CorNeeded events
\* with timestamps within the stage-0 window of the wall clock; the accumulator holds
\* nothing but the stage-0 events of the group processed since it was last cleared or
\* swept: a step either leaves it, empties it, or appends the stage-0 event of the
\* group that a call processes.
C26_AlertOnlyAfterFailures ==
    [][\A g \in Groups :
          LET old == Accumulated(thresholdState, g)
              new == Accumulated(thresholdState', g)
          IN  /\ (CorCall(g) /\ AlertedBy(last', "cor")) =>
                     /\ MatchesStage1(last'.event)
                     /\ Cardinality({i \in DOMAIN old :
                                        now - GetTime(old[i].timestamp) < CorWindowMs})
                            >= CorNeeded
                     /\ Cardinality(AlertsOf(last', "cor")) = 1
              /\ \/ new = old
                 \/ new = <<>>
                 \/ /\ CorCall(g)
                    /\ MatchesStage0(last'.event)
                    /\ new = Append(old, Entry(last'.event))]_vars

\* the rule alerted on a third failure from address b after two counted ones
C26_Witness ==
    /\ last # NoCall
    /\ GroupOf(last.event) = "b"
    /\ AlertedBy(last, "cor")
    /\ Accumulated(thresholdState, "b") = <<>>

----------------------------------------------------------------------------
(* C27 *)

\* s is the beginning of t
IsPrefix(s, t) == Len(s) <= Len(t) /\ SubSeq(t, 1, Len(s)) = s

\* C27 (as claimed): the accumulator of a group only grows until a call returns an
\* alert of the correlation rule for the group or the sweep runs; in particular a
\* stage-1 event that returns no alert leaves the accumulated failures in place.
C27_GrowsUntilAlert ==
    [][\A g \in Groups :
          \/ CorCall(g) /\ AlertedBy(last', "cor")
          \/ now' # now
          \/ IsPrefix(Accumulated(thresholdState, g), Accumulated(thresholdState', g))]_vars

----------------------------------------------------------------------------
(* C28 *)

\* the keys the records of the quiet-period model make
QuietKeys == {StateKey(r, Str(g)) : r \in StateRules, g \in Groups}

\* C28: with the timer firing again and again, every state entry is deleted once its
\* group receives no further matching events (every run of the model has finitely
\* many events), and no entry that a sweep leaves is older than the maximum age, so
\* the entries are those of groups that had a matching event within that period.
C28_EventuallySwept ==
    /\ \A k \in QuietKeys :
           (k \in DOMAIN thresholdState) ~> (k \notin DOMAIN thresholdState)
    /\ [](\A k \in DOMAIN thresholdState :
              now - thresholdState[k].window_start <= MaxAgeMs)

\* the sweep has emptied a map that held the entries of both rules
C28_Witness ==
    /\ thresholdState = << >>
    /\ Len(thrTrail["a"]) > 0
    /\ ~(\E a \in alerts : a.rule_id = "cor")
    /\ now > MaxAgeMs

----------------------------------------------------------------------------
(* C29 *)

\* C29: a rule's match count never decreases; a call of processEvent raises it by the
\* number of alerts the call returns for the rule, and every other step, a toggle of
\* the rule included, leaves it as it was.
C29_MatchCountGrowsByAlerts ==
    [][\A id \in RuleIds :
          RowOf(rules', id).match_count =
              RowOf(rules, id).match_count
                  + (IF Call THEN Cardinality(AlertsOf(last', id)) ELSE 0)]_vars

\* the signature rule alerted once and was disabled afterwards, and the threshold
\* rule alerted once
C29_Witness ==
    /\ RowOf(rules, "sig").match_count = 1
    /\ ~RowOf(rules, "sig").enabled
    /\ RowOf(rules, "thr").match_count = 1

----------------------------------------------------------------------------
(* C30 *)

\* the records of the body that the parser takes without raising, in batch order
ParsedIndexes ==
    SelectSeq([j \in 1..Len(probe.batch) |-> j],
              LAMBDA j : ~Parse(probe.parser, probe.batch[j],
                                [hostname |-> Str("web1")]).threw)

\* C30 (as claimed): a batch never stalls on one bad record: when the route has
\* answered, every record that parsed was run through the engine in batch order and
\* is stored, and the answer reports success with the number of records parsed.
C30_BatchNeverStalls ==
    (probe # Idle /\ probe.response # NoResponse) =>
        /\ probe.ran = ParsedIndexes
        /\ probe.response.status = 200
        /\ probe.response.processed = Len(ParsedIndexes)
        /\ \A j \in DOMAIN probe.parsedEvents : probe.parsedEvents[j].id \in events

----------------------------------------------------------------------------
(* C31 *)

\* a handler of the call reached alertOps.insert: an alert was returned, or the
\* handler of a rule that can raise nowhere else raised
InsertReached(call) ==
    call.alerts # <<>> \/ call.threw \cap {"thr", "cor", "sig"} # {}

\* C31 (as claimed): an alert is inserted only after the event it references has been
\* inserted, on every ingestion path: in every processEvent call in which a rule
\* handler reaches the alert insert, the event is in the events table.
C31_EventStoredFirst ==
    (last.event # Null /\ InsertReached(last)) => last.stored

----------------------------------------------------------------------------
(* C32 *)

\* the entry of a key, or "none" when the map has no such key
StateAt(map, key) == IF key \in DOMAIN map THEN map[key] ELSE [t |-> "none"]

\* C32 (as claimed): when the threshold rule or the correlation rule fires and the
\* alert insert raises, the group's window state after the call is the state it had
\* before the event was processed.
C32_StateKeptOnFailure ==
    [][\A id \in {"thr", "cor"} :
          (Call /\ id \in last'.threw) =>
              LET g == GroupOf(last'.event)
                  key == IF id = "thr" THEN ThrKey(g) ELSE CorKey(g)
              IN  StateAt(thresholdState', key) = StateAt(thresholdState, key)]_vars

----------------------------------------------------------------------------
(* C33 *)

\* the step is a run of the timer callback
TimerRan == now' # now /\ now' % SweepIntervalMs = 0

\* the entries of a state whose timestamps are within the window of the clock `at`
Within(state, at, windowMs) ==
    SelectSeq(state.events, LAMBDA e : (at - GetTime(e.timestamp)) < windowMs)

\* C33 (as claimed): the cleanup timer never deletes the state of a correlation
\* group that holds stage-0 events whose timestamps are within the stage-0 window of
\* the wall clock.
C33_RecentStateSurvives ==
    [][TimerRan =>
          \A g \in Groups :
              (/\ CorKey(g) \in DOMAIN thresholdState
               /\ Within(thresholdState[CorKey(g)], now', CorWindowMs) # <<>>)
                  => CorKey(g) \in DOMAIN thresholdState']_vars

----------------------------------------------------------------------------
(* C34 *)

\* C34: for a threshold rule whose window is at most 600 seconds the cleanup timer
\* cannot be observed: whatever events arrive and whenever the timer runs, every call
\* returns the alerts of the threshold rule that the same call returns on a map the
\* timer never touched.
C34_SweepUnobservable ==
    {last.alerts[i] : i \in AlertsOf(last, "thr")}
        = {probe.alerts[i] : i \in AlertsOf(probe, "thr")}

\* the first event made the state of the group, the timer deleted it more than ten
\* minutes later, the second event found no state and the third made the rule alert
C34_Witness ==
    /\ nextId = 4
    /\ Len(thrTrail["a"]) = 2
    /\ thrTrail["a"][1].fresh
    /\ thrTrail["a"][1].at > MaxAgeMs
    /\ thrTrail["a"][2].alert
    /\ AlertedBy(last, "thr")

----------------------------------------------------------------------------
(* C35 *)

\* the threshold a rule is meant to fire at: the configured one, 5 when none is
EffectiveThreshold(rule) ==
    IF "threshold" \in DOMAIN rule.conditions THEN rule.conditions.threshold ELSE 5

ThresholdRows == {i \in DOMAIN rules : rules[i].rule_type = "threshold"}

\* C35: between processEvent calls every stored state entry of a threshold rule has a
\* count strictly below the rule's effective threshold.
C35_CountBelowThreshold ==
    \A i \in ThresholdRows, g \in Groups :
        LET key == StateKey(rules[i], Str(g))
        IN  key \in DOMAIN thresholdState =>
                thresholdState[key].count < EffectiveThreshold(rules[i])

\* a rule that configures no threshold has counted four events in a row
C35_Witness ==
    /\ \E i \in ThresholdRows :
          /\ "threshold" \notin DOMAIN rules[i].conditions
          /\ StateKey(rules[i], Str("a")) \in DOMAIN thresholdState
          /\ thresholdState[StateKey(rules[i], Str("a"))].count = 4
    /\ nextId = 5

----------------------------------------------------------------------------
(* C36 *)

\* C36: the event count reported in a threshold alert equals the rule's effective
\* threshold exactly, whatever the rate of the matching events.
C36_ReportedCount ==
    \A i \in ThresholdRows, j \in DOMAIN last.alerts :
        last.alerts[j].rule_id = rules[i].id =>
            /\ last.alerts[j].details[1] = "Threshold exceeded"
            /\ last.alerts[j].details[2] = EffectiveThreshold(rules[i])

\* a rule with threshold 3 has just alerted for the second time
C36_Witness ==
    /\ last.alerts # <<>>
    /\ \E i \in ThresholdRows :
          EffectiveThreshold(rules[i]) = 3 /\ rules[i].match_count = 2

----------------------------------------------------------------------------
(* C37 *)

\* C37: a broadcast on a channel is sent to exactly the connected clients whose
\* socket is open and that have asked for the channel and not unsubscribed from it
\* since; a client that closed or errored, or that asked only for channels outside
\* CHANNELS, is sent nothing.
C37_BroadcastRecipients ==
    probe.broadcast # NoBroadcast =>
        /\ probe.broadcast.sent =
               {s \in Sockets : /\ probe.readyState[s] = "OPEN"
                                /\ s \notin probe.gone
                                /\ probe.broadcast.channel \in probe.asked[s]}
        /\ probe.broadcast.sent \cap probe.gone = {}
        /\ probe.broadcast.channel \notin CHANNELS => probe.broadcast.sent = {}

\* a broadcast on events reaches the first client only, while the second, still
\* open and subscribed to alerts, has errored
C37_Witness ==
    /\ probe.broadcast = [channel |-> "events", sent |-> {"s1"}]
    /\ probe.readyState["s2"] = "OPEN"
    /\ "s2" \in probe.gone
    /\ "events" \in probe.asked["s2"]

----------------------------------------------------------------------------
(* C38 *)

\* C38 (as claimed): the agent queues each line appended to a tailed file exactly
\* once, also when change notifications arrive while a read of the file is in
\* progress: no line is queued twice, and when no read is in progress every line up
\* to the file position has been queued.
C38_QueuedOnce ==
    /\ \A i, j \in DOMAIN probe.queued : probe.queued[i] = probe.queued[j] => i = j
    /\ probe.reads = <<>> =>
           \A l \in 1..probe.filePosition :
               \E i \in DOMAIN probe.queued : probe.queued[i] = l

----------------------------------------------------------------------------
(* C39 *)

\* C39 (as claimed): when the agent is stopped, every event that was in its queue is
\* sent to the server before the process exits, whatever the length of the queue.
C39_FlushedBeforeExit ==
    probe.state = "exited" =>
        \A i \in DOMAIN probe.atStop : probe.atStop[i] \in probe.received

====
